---- MODULE Spec2Model ----
(***************************************************************************)
(* The in-memory session store of ikiguide-backend (app/models/session.py)  *)
(* and the generation protocol layered on it                                *)
(* (app/services/openai_service.py, app/api/endpoints.py).                  *)
(*                                                                          *)
(* Threads run the store's methods statement by statement; a dictionary     *)
(* operation is one step.  A Session object is a reference to the record's  *)
(* dict: the heap keeps every dict that the mapping or some thread still    *)
(* references, so a write through a stale reference is a write to a dict    *)
(* the mapping no longer holds.                                             *)
(***************************************************************************)
EXTENDS Integers, Sequences, FiniteSets, TLC

\* ---------------------------------------------------------------- bounds
MaxIds == 3
MaxClock == 2
MaxCap == 2
MaxTimeout == 2
GenCap == 1

\* ------------------------------------------------------------- constants
MaxAttempts == 3

Threads == {1, 2}
Ids == 1..MaxIds
\* a session id no create_session call ever returned
ForeignId == MaxIds + 1
\* None, as an id (falsy)
NoId == 0

VARIABLES
    clock,          \* datetime.now(), in hours
    max_sessions,   \* SessionManager._max_sessions
    session_timeout,\* SessionManager._session_timeout, in hours
    sessions,       \* SessionManager._sessions, in dict order: <<[id, obj]>>
    heap,           \* the record dicts, by object
    lock,           \* SessionManager._session_creation_lock: holder or 0
    issued,         \* uuid4() draws so far
    thr,            \* per thread: position and locals
    prev            \* history: the protocol call that returned last, nothing since

vars == <<clock, max_sessions, session_timeout, sessions, heap, lock, issued, thr, prev>>

\* ------------------------------------------------------------ dictionaries
EmptyDict == [k \in {} |-> <<>>]

\* the patch taking the place of the dict
DictReplace(d, patch) == patch

\* a merge in which the values already there win
DictSetDefault(d, patch) ==
    [k \in (DOMAIN d) \cup (DOMAIN patch) |->
        IF k \in DOMAIN d THEN d[k] ELSE patch[k]]

\* dict.update(patch): patch values overwrite, other keys survive
DictUpdate(d, patch) ==
    [k \in (DOMAIN d) \cup (DOMAIN patch) |->
        IF k \in DOMAIN patch THEN patch[k] ELSE d[k]]

\* a memo check that never finds a value
NeverTruthy(d, k) == FALSE

\* a memo check that takes any value under the key, an empty sequence too
TruthyIfPresent(d, k) == k \in DOMAIN d

\* d.get(k) is truthy: present and not an empty sequence
Truthy(d, k) == k \in DOMAIN d /\ d[k] # <<>>

NoObj == [created_at |-> -1, last_activity |-> -1,
          user_data |-> EmptyDict, user_responses |-> EmptyDict]

\* ------------------------------------------------------ the mapping
KeysOf(m) == {m[i].id : i \in 1..Len(m)}
Has(m, id) == id \in KeysOf(m)
\* the object the mapping holds for id (0: none)
ObjOf(m, id) ==
    IF Has(m, id) THEN (CHOOSE e \in {m[i] : i \in 1..Len(m)} : e.id = id).obj
    ELSE 0
\* del m[id]
DictDel(m, id) == SelectSeq(m, LAMBDA e : e.id # id)
\* an insertion that does not look for the key
DictAppend(m, id, obj) == Append(m, [id |-> id, obj |-> obj])

\* m[id] = obj: an existing key keeps its place
DictSet(m, id, obj) ==
    IF Has(m, id)
    THEN [i \in 1..Len(m) |-> IF m[i].id = id THEN [id |-> id, obj |-> obj] ELSE m[i]]
    ELSE Append(m, [id |-> id, obj |-> obj])
IdSeq(m) == [i \in 1..Len(m) |-> m[i].id]

\* ---------------------------------------------------------- thread locals
Idle == [pc |-> "idle", op |-> "none", stack |-> <<>>, sid |-> NoId,
         data |-> EmptyDict, h |-> 0, sess |-> 0, res |-> 0, exc |-> "none",
         now |-> 0, expired |-> <<>>, sorted |-> <<>>, oldest |-> NoId,
         n |-> 0, ca |-> 0, nexp |-> 0, collided |-> FALSE,
         cookie |-> NoId, arg_sid |-> NoId, gsid |-> NoId, resp |-> <<>>,
         attempt |-> 0, paths |-> <<>>, calls |-> 0, hit |-> FALSE,
         failed |-> FALSE, rsid |-> NoId]

\* objects some thread references
Held(th) == ({th[t].h : t \in Threads} \cup {th[t].sess : t \in Threads}) \ {0}
\* objects the mapping references
Stored(m) == {m[i].obj : i \in 1..Len(m)}
\* drop the dicts nothing references any more
Collect(hp, m, th) ==
    [o \in Ids |-> IF o \in Stored(m) \cup Held(th) THEN hp[o] ELSE NoObj]

\* return from the current call: to the caller's continuation, or out
Ret(loc) ==
    IF loc.stack = <<>> THEN [loc EXCEPT !.pc = "done"]
    ELSE [loc EXCEPT !.pc = Head(loc.stack), !.stack = Tail(loc.stack)]
Call(loc, callee, cont) ==
    [loc EXCEPT !.pc = callee, !.stack = <<cont>> \o loc.stack]

\* no protocol call to look back on
NoPrev == [sid |-> NoId, gsid |-> NoId, resp |-> <<>>, paths |-> <<>>,
           calls |-> -1, failed |-> FALSE, exc |-> "none"]

\* SessionManager(max_sessions, session_timeout), as configured
Configured(caps, timeouts) ==
    /\ clock = 0
    /\ max_sessions \in caps
    /\ session_timeout \in timeouts
    /\ sessions = <<>>
    /\ heap = [o \in Ids |-> NoObj]
    /\ lock = 0
    /\ issued = 0
    /\ thr = [t \in Threads |-> Idle]
    /\ prev = NoPrev

Init == Configured(0..MaxCap, 1..MaxTimeout)
\* the configurations the protocol is run under
InitGen == Configured(0..GenCap, {MaxTimeout})

\* A store method runs in far less than one clock unit: an hour passes only
\* between calls, or while a request waits for the Generator.
Quiet == \A t \in Threads : thr[t].pc \in {"idle", "done", "gen_wait"}

\* time passes
Tick ==
    /\ clock < MaxClock
    /\ Quiet
    /\ clock' = clock + 1
    /\ UNCHANGED <<max_sessions, session_timeout, sessions, heap, lock, issued, thr, prev>>

\* ------------------------------------------------------- create_session
\* calls of create_session that have not drawn their uuid yet
Pending == Cardinality({t \in Threads :
    thr[t].pc \in {"c_lock", "c_sweep", "c_expdel", "c_over", "c_overloop",
                   "c_check", "c_evict", "c_build"}})
\* the model draws at most MaxIds uuids
CanCreate == issued + Pending < MaxIds

\* the sweep, had it measured age from the last activity
IsExpiredByActivity(rec, now) == now - rec.last_activity > session_timeout

\* the sweep, had a record expired on reaching the timeout
IsExpiredInclusive(rec, now) == now - rec.created_at >= session_timeout

\* (now - session['created_at']) > timedelta(hours=self._session_timeout)
IsExpired(rec, now) == now - rec.created_at > session_timeout

\* the ids whose record the sweep finds expired, in dict order
ExpiredIds(m, hp, now) ==
    SelectSeq(IdSeq(m), LAMBDA id : IsExpired(hp[ObjOf(m, id)], now))

\* the least recently used record, had eviction gone by last_activity
LeastRecentlyUsed(m, hp) ==
    LET best == CHOOSE i \in 1..Len(m) :
            /\ \A j \in 1..Len(m) : hp[m[i].obj].last_activity <= hp[m[j].obj].last_activity
            /\ \A j \in 1..(i - 1) : hp[m[j].obj].last_activity # hp[m[i].obj].last_activity
    IN m[best].id

\* min(self._sessions, key=created_at): the first of the smallest, in dict order
Oldest(m, hp) ==
    LET best == CHOOSE i \in 1..Len(m) :
            /\ \A j \in 1..Len(m) : hp[m[i].obj].created_at <= hp[m[j].obj].created_at
            /\ \A j \in 1..(i - 1) : hp[m[j].obj].created_at # hp[m[i].obj].created_at
    IN m[best].id

\* sorted(self._sessions.items(), key=created_at): stable
RECURSIVE SortedByCreated(_, _)
SortedByCreated(m, hp) ==
    IF m = <<>> THEN <<>>
    ELSE <<Oldest(m, hp)>> \o SortedByCreated(DictDel(m, Oldest(m, hp)), hp)

\* the capacity test, had it let the store fill one past the limit
AboveCapacity(m) == Len(m) > max_sessions

\* len(self._sessions) >= self._max_sessions
AtCapacity(m) == Len(m) >= max_sessions

\* with self._session_creation_lock:
create_acquire(t) ==
    /\ thr[t].pc = "c_lock"
    /\ lock = 0
    /\ lock' = t
    /\ thr' = [thr EXCEPT ![t].pc = "c_sweep"]
    /\ UNCHANGED <<clock, max_sessions, session_timeout, sessions, heap, issued, prev>>

\* self._cleanup_expired_sessions(), one statement a step
cleanup_expired_sessions(t) ==
    /\ thr[t].pc \in {"c_sweep", "c_expdel", "c_over", "c_overloop"}
    /\ LET loc == thr[t] IN
       CASE loc.pc = "c_sweep" ->
              /\ thr' = [thr EXCEPT ![t].now = clock,
                                    ![t].expired = ExpiredIds(sessions, heap, clock),
                                    ![t].nexp = Len(ExpiredIds(sessions, heap, clock)),
                                    ![t].pc = "c_expdel"]
              /\ sessions' = sessions
         [] loc.pc = "c_expdel" ->
              IF loc.expired = <<>>
              THEN /\ thr' = [thr EXCEPT ![t].pc = "c_over"]
                   /\ sessions' = sessions
              ELSE IF Has(sessions, Head(loc.expired))
              THEN /\ sessions' = DictDel(sessions, Head(loc.expired))
                   /\ thr' = [thr EXCEPT ![t].expired = Tail(loc.expired)]
              ELSE \* KeyError
                   /\ thr' = [thr EXCEPT ![t].pc = "c_except"]
                   /\ sessions' = sessions
         [] loc.pc = "c_over" ->
              /\ sessions' = sessions
              /\ IF Len(sessions) > max_sessions
                 THEN thr' = [thr EXCEPT ![t].sorted = SortedByCreated(sessions, heap),
                                         ![t].pc = "c_overloop"]
                 ELSE thr' = [thr EXCEPT ![t].pc = "c_check"]
         [] loc.pc = "c_overloop" ->
              IF Len(sessions) > max_sessions
              THEN IF loc.sorted # <<>> /\ Has(sessions, Head(loc.sorted))
                   THEN /\ sessions' = DictDel(sessions, Head(loc.sorted))
                        /\ thr' = [thr EXCEPT ![t].sorted = Tail(loc.sorted)]
                   ELSE \* IndexError, KeyError
                        /\ thr' = [thr EXCEPT ![t].pc = "c_except", ![t].sorted = <<>>]
                        /\ sessions' = sessions
              ELSE /\ thr' = [thr EXCEPT ![t].pc = "c_check", ![t].sorted = <<>>]
                   /\ sessions' = sessions
    /\ heap' = Collect(heap, sessions', thr')
    /\ UNCHANGED <<clock, max_sessions, session_timeout, lock, issued, prev>>

\* the capacity test, had every new session pushed the oldest one out
create_check_eager(t) ==
    /\ thr[t].pc = "c_check"
    /\ IF sessions = <<>>
       THEN IF AtCapacity(sessions)
            THEN thr' = [thr EXCEPT ![t].pc = "c_except"]
            ELSE thr' = [thr EXCEPT ![t].pc = "c_build"]
       ELSE thr' = [thr EXCEPT ![t].oldest = Oldest(sessions, heap),
                               ![t].n = Len(sessions),
                               ![t].pc = "c_evict"]
    /\ UNCHANGED <<clock, max_sessions, session_timeout, sessions, heap, lock, issued, prev>>

\* the capacity test, had it never found the store full
create_check_unbounded(t) ==
    /\ thr[t].pc = "c_check"
    /\ thr' = [thr EXCEPT ![t].pc = "c_build"]
    /\ UNCHANGED <<clock, max_sessions, session_timeout, sessions, heap, lock, issued, prev>>

\* if len(self._sessions) >= self._max_sessions: oldest_session = min(...)
create_check(t) ==
    /\ thr[t].pc = "c_check"
    /\ IF AtCapacity(sessions)
       THEN IF sessions = <<>>
            THEN \* min() of an empty dict: ValueError
                 thr' = [thr EXCEPT ![t].pc = "c_except"]
            ELSE thr' = [thr EXCEPT ![t].oldest = Oldest(sessions, heap),
                                    ![t].n = Len(sessions),
                                    ![t].pc = "c_evict"]
       ELSE thr' = [thr EXCEPT ![t].pc = "c_build"]
    /\ UNCHANGED <<clock, max_sessions, session_timeout, sessions, heap, lock, issued, prev>>

\* del self._sessions[oldest_session]
create_evict(t) ==
    /\ thr[t].pc = "c_evict"
    /\ \E changed \in (IF Len(sessions) # thr[t].n THEN {TRUE, FALSE} ELSE {FALSE}) :
        IF changed \/ ~Has(sessions, thr[t].oldest)
        THEN \* the dict changed size under min(), or KeyError
             /\ thr' = [thr EXCEPT ![t].pc = "c_except", ![t].oldest = NoId, ![t].n = 0]
             /\ sessions' = sessions
        ELSE /\ sessions' = DictDel(sessions, thr[t].oldest)
             /\ thr' = [thr EXCEPT ![t].pc = "c_build", ![t].n = 0]
    /\ heap' = Collect(heap, sessions', thr')
    /\ UNCHANGED <<clock, max_sessions, session_timeout, lock, issued, prev>>

\* session_id = str(uuid.uuid4()); 'created_at': datetime.now()
create_build(t) ==
    /\ thr[t].pc = "c_build"
    /\ issued < MaxIds
    /\ issued' = issued + 1
    /\ thr' = [thr EXCEPT ![t].sid = issued + 1, ![t].ca = clock, ![t].pc = "c_insert"]
    /\ UNCHANGED <<clock, max_sessions, session_timeout, sessions, heap, lock, prev>>

\* the record, had last_activity started at the epoch
NewRecordEpoch(ca, la, initial_data) ==
    [created_at |-> ca, last_activity |-> 0,
     user_data |-> initial_data, user_responses |-> EmptyDict]

\* the record create_session stores
NewRecord(ca, la, initial_data) ==
    [created_at |-> ca, last_activity |-> la,
     user_data |-> initial_data, user_responses |-> EmptyDict]

\* 'last_activity': datetime.now(); self._sessions[session_id] = session_data
create_insert(t) ==
    /\ thr[t].pc = "c_insert"
    /\ sessions' = DictSet(sessions, thr[t].sid, thr[t].sid)
    /\ thr' = [thr EXCEPT ![t].pc = "c_return", ![t].ca = 0, ![t].data = EmptyDict]
    /\ heap' = Collect([heap EXCEPT ![thr[t].sid] =
                            NewRecord(thr[t].ca, clock, thr[t].data)],
                       sessions', thr')
    /\ UNCHANGED <<clock, max_sessions, session_timeout, lock, issued, prev>>

\* return session_id, had the lock stayed with the caller
create_return_locked(t) ==
    /\ thr[t].pc = "c_return"
    /\ thr' = [thr EXCEPT ![t] = Ret([thr[t] EXCEPT !.res = thr[t].sid, !.sid = NoId,
                                                   !.now = 0, !.nexp = 0,
                                                   !.oldest = NoId])]
    /\ UNCHANGED <<clock, max_sessions, session_timeout, sessions, heap, lock, issued, prev>>

\* return session_id, leaving the with block
create_return(t) ==
    /\ thr[t].pc = "c_return"
    /\ lock' = 0
    /\ thr' = [thr EXCEPT ![t] = Ret([thr[t] EXCEPT !.res = thr[t].sid, !.sid = NoId,
                                                   !.now = 0, !.nexp = 0,
                                                   !.oldest = NoId])]
    /\ UNCHANGED <<clock, max_sessions, session_timeout, sessions, heap, issued, prev>>

\* raise SessionError(...), had the lock stayed with the caller
create_except_locked(t) ==
    /\ thr[t].pc = "c_except"
    /\ thr' = [thr EXCEPT ![t] = Ret([thr[t] EXCEPT !.exc = "SessionError",
                                                   !.res = 0, !.now = 0,
                                                   !.nexp = 0, !.sid = NoId,
                                                   !.expired = <<>>,
                                                   !.data = EmptyDict])]
    /\ UNCHANGED <<clock, max_sessions, session_timeout, sessions, heap, lock, issued, prev>>

\* except Exception: raise SessionError(...), leaving the with block
create_except(t) ==
    /\ thr[t].pc = "c_except"
    /\ lock' = 0
    /\ thr' = [thr EXCEPT ![t] = Ret([thr[t] EXCEPT !.exc = "SessionError",
                                                   !.res = 0, !.now = 0,
                                                   !.nexp = 0, !.sid = NoId,
                                                   !.expired = <<>>,
                                                   !.data = EmptyDict])]
    /\ UNCHANGED <<clock, max_sessions, session_timeout, sessions, heap, issued, prev>>

create_session(t) ==
    \/ create_acquire(t)
    \/ cleanup_expired_sessions(t)
    \/ create_check(t)
    \/ create_evict(t)
    \/ create_build(t)
    \/ create_insert(t)
    \/ create_return(t)
    \/ create_except(t)

\* ---------------------------------------------------------- get_session
\* the lookup, had it dropped a record it finds expired and returned None
get_lookup_expiring(t) ==
    /\ thr[t].pc = "g_lookup"
    /\ LET o == ObjOf(sessions, thr[t].sid) IN
       IF o # 0 /\ clock - heap[o].created_at > session_timeout
       THEN /\ thr' = [thr EXCEPT ![t] = Ret([thr[t] EXCEPT !.sess = 0, !.sid = NoId])]
            /\ sessions' = DictDel(sessions, thr[t].sid)
       ELSE /\ sessions' = sessions
            /\ IF o # 0
               THEN thr' = [thr EXCEPT ![t].h = o, ![t].pc = "g_touch"]
               ELSE thr' = [thr EXCEPT ![t] = Ret([thr[t] EXCEPT !.sess = 0,
                                                                !.sid = NoId])]
    /\ heap' = Collect(heap, sessions', thr')
    /\ UNCHANGED <<clock, max_sessions, session_timeout, lock, issued, prev>>

\* session_data = self._sessions.get(session_id)
get_lookup(t) ==
    /\ thr[t].pc = "g_lookup"
    /\ LET o == ObjOf(sessions, thr[t].sid) IN
       IF o # 0
       THEN thr' = [thr EXCEPT ![t].h = o, ![t].pc = "g_touch"]
       ELSE thr' = [thr EXCEPT ![t] = Ret([thr[t] EXCEPT !.sess = 0, !.sid = NoId])]
    /\ heap' = Collect(heap, sessions, thr')
    /\ UNCHANGED <<clock, max_sessions, session_timeout, sessions, lock, issued, prev>>

\* return Session(...), had the activity timestamp been left alone
get_touch_untouched(t) ==
    /\ thr[t].pc = "g_touch"
    /\ thr' = [thr EXCEPT ![t] = Ret([thr[t] EXCEPT !.sess = thr[t].h, !.h = 0,
                                                   !.sid = NoId])]
    /\ heap' = Collect(heap, sessions, thr')
    /\ UNCHANGED <<clock, max_sessions, session_timeout, sessions, lock, issued, prev>>

\* session_data['last_activity'] = datetime.now(); return Session(...)
get_touch(t) ==
    /\ thr[t].pc = "g_touch"
    /\ thr' = [thr EXCEPT ![t] = Ret([thr[t] EXCEPT !.sess = thr[t].h, !.h = 0,
                                                   !.sid = NoId])]
    /\ heap' = Collect([heap EXCEPT ![thr[t].h].last_activity = clock], sessions, thr')
    /\ UNCHANGED <<clock, max_sessions, session_timeout, sessions, lock, issued, prev>>

get_session(t) == get_lookup(t) \/ get_touch(t)

\* ------------------------------------------------------- update_session
\* the merge, had an unknown id been given a record of its own
update_merge_upsert(t) ==
    /\ thr[t].pc = "u_merge"
    /\ IF thr[t].sess # 0
       THEN /\ thr' = [thr EXCEPT ![t].pc = "u_touch", ![t].data = EmptyDict]
            /\ heap' = [heap EXCEPT ![thr[t].sess].user_data =
                            DictUpdate(heap[thr[t].sess].user_data, thr[t].data)]
            /\ sessions' = sessions
       ELSE /\ thr' = [thr EXCEPT ![t] = Ret([thr[t] EXCEPT !.res = 1,
                                                          !.data = EmptyDict])]
            /\ sessions' = DictSet(sessions, MaxIds, MaxIds)
            /\ heap' = [heap EXCEPT ![MaxIds] = NewRecord(clock, clock, thr[t].data)]
    /\ UNCHANGED <<clock, max_sessions, session_timeout, lock, issued, prev>>

\* session._session_data['user_data'].update(data)
update_merge(t) ==
    /\ thr[t].pc = "u_merge"
    /\ IF thr[t].sess # 0
       THEN /\ thr' = [thr EXCEPT ![t].pc = "u_touch", ![t].data = EmptyDict]
            /\ heap' = [heap EXCEPT ![thr[t].sess].user_data =
                            DictUpdate(heap[thr[t].sess].user_data, thr[t].data)]
       ELSE /\ thr' = [thr EXCEPT ![t] = Ret([thr[t] EXCEPT !.res = 0,
                                                          !.data = EmptyDict])]
            /\ heap' = heap
    /\ UNCHANGED <<clock, max_sessions, session_timeout, sessions, lock, issued, prev>>

\* the touch of update_session, had it renewed the record's lease
update_touch_renewing(t) ==
    /\ thr[t].pc = "u_touch"
    /\ thr' = [thr EXCEPT ![t] = Ret([thr[t] EXCEPT !.res = 1, !.sess = 0])]
    /\ heap' = Collect([heap EXCEPT ![thr[t].sess].last_activity = clock,
                                    ![thr[t].sess].created_at = clock],
                       sessions, thr')
    /\ UNCHANGED <<clock, max_sessions, session_timeout, sessions, lock, issued, prev>>

\* session._session_data['last_activity'] = datetime.now(); return True
update_touch(t) ==
    /\ thr[t].pc = "u_touch"
    /\ thr' = [thr EXCEPT ![t] = Ret([thr[t] EXCEPT !.res = 1, !.sess = 0])]
    /\ heap' = Collect([heap EXCEPT ![thr[t].sess].last_activity = clock], sessions, thr')
    /\ UNCHANGED <<clock, max_sessions, session_timeout, sessions, lock, issued, prev>>

update_session(t) == update_merge(t) \/ update_touch(t)

\* ------------------------------------------------------- delete_session
\* if session_id in self._sessions:
delete_check(t) ==
    /\ thr[t].pc = "d_check"
    /\ IF Has(sessions, thr[t].sid)
       THEN thr' = [thr EXCEPT ![t].pc = "d_del"]
       ELSE thr' = [thr EXCEPT ![t] = Ret([thr[t] EXCEPT !.res = 0])]
    /\ UNCHANGED <<clock, max_sessions, session_timeout, sessions, heap, lock, issued, prev>>

\* del self._sessions[session_id], had the KeyError reached the caller
delete_del_raising(t) ==
    /\ thr[t].pc = "d_del"
    /\ sessions' = DictDel(sessions, thr[t].sid)
    /\ thr' = [thr EXCEPT ![t] = Ret([thr[t] EXCEPT
                    !.res = IF Has(sessions, thr[t].sid) THEN 1 ELSE 0,
                    !.exc = IF Has(sessions, thr[t].sid) THEN "none" ELSE "KeyError"])]
    /\ heap' = Collect(heap, sessions', thr')
    /\ UNCHANGED <<clock, max_sessions, session_timeout, lock, issued, prev>>

\* return True, had the record been left in the mapping
delete_del_kept(t) ==
    /\ thr[t].pc = "d_del"
    /\ sessions' = sessions
    /\ thr' = [thr EXCEPT ![t] = Ret([thr[t] EXCEPT
                    !.res = IF Has(sessions, thr[t].sid) THEN 1 ELSE 0])]
    /\ heap' = Collect(heap, sessions', thr')
    /\ UNCHANGED <<clock, max_sessions, session_timeout, lock, issued, prev>>

\* del self._sessions[session_id]; return True  (KeyError: return False)
delete_del(t) ==
    /\ thr[t].pc = "d_del"
    /\ sessions' = DictDel(sessions, thr[t].sid)
    /\ thr' = [thr EXCEPT ![t] = Ret([thr[t] EXCEPT
                    !.res = IF Has(sessions, thr[t].sid) THEN 1 ELSE 0])]
    /\ heap' = Collect(heap, sessions', thr')
    /\ UNCHANGED <<clock, max_sessions, session_timeout, lock, issued, prev>>

delete_session(t) == delete_check(t) \/ delete_del(t)

\* ------------------------------------------------------ response bundles
\* A responses dict, in insertion order: <<[k, int, v]>>, k the key's text,
\* int whether the key is an int, v the answer.
Entry(k, isint, v) == [k |-> k, int |-> isint, v |-> v]
\* required_keys = ['good_at', 'love', 'world_needs', 'paid_for']
RequiredKeys == <<"good_at", "love", "world_needs", "paid_for">>
NumericKeys == <<"1", "2", "3", "4">>
HasKey(b, k, isint) == \E i \in 1..Len(b) : b[i].k = k /\ b[i].int = isint
\* b.get(k, default)
GetVal(b, k, isint, default) ==
    IF HasKey(b, k, isint)
    THEN (CHOOSE e \in {b[i] : i \in 1..Len(b)} : e.k = k /\ e.int = isint).v
    ELSE default
\* all(isinstance(k, int) for k in responses.keys())
AllInt(b) == \A i \in 1..Len(b) : b[i].int
\* all(key in responses for key in required_keys)
HasRequired(b) == \A i \in 1..4 : HasKey(b, RequiredKeys[i], FALSE)
\* generate_ikiguide_with_retry: numeric keys to the expected keys
Transform(b) ==
    IF AllInt(b)
    THEN [i \in 1..4 |-> Entry(RequiredKeys[i], FALSE, GetVal(b, NumericKeys[i], TRUE, ""))]
    ELSE b
\* get_results: dict(zip(required_keys, user_responses.values()))
ZipRequired(b) == [i \in 1..4 |-> Entry(RequiredKeys[i], FALSE, b[i].v)]
\* all(response.lower() == 'testing' for response in user_responses.values())
AllTesting(b) == \A i \in 1..Len(b) : b[i].v = "testing"

\* the sentinel the protocol returns when the Generator fails
ErrorPaths == <<"ERROR">>
\* the write-back, had it gone under another key
PathsUnderNote(p) == [k \in {"note"} |-> p]

\* {'ikiguide_paths': paths}
PathsPatchOf(p) == [k \in {"ikiguide_paths"} |-> p]
ResponsesPatchOf(b) == [k \in {"responses"} |-> b]

\* ------------------------------------- generate_ikiguide_with_retry
\* raise out of the function body: tenacity runs it again, or gives up
GenRaise(loc) ==
    IF loc.attempt < MaxAttempts
    THEN [loc EXCEPT !.pc = "gen_backoff", !.exc = "none", !.sess = 0, !.gsid = NoId]
    ELSE Ret([loc EXCEPT !.exc = "RetryError", !.sess = 0, !.gsid = NoId])

\* validate the responses; determine the session
gen_validate(t) ==
    /\ thr[t].pc = "gen_validate"
    /\ IF ~HasRequired(Transform(thr[t].resp))
       THEN \* raise ValueError("Missing required response keys")
            thr' = [thr EXCEPT ![t] = GenRaise(thr[t])]
       ELSE IF thr[t].arg_sid = NoId
       THEN \* session_id = session_manager.create_session()
            /\ CanCreate
            /\ thr' = [thr EXCEPT ![t] = Call([thr[t] EXCEPT !.gsid = NoId],
                                              "c_lock", "gen_created1")]
       ELSE \* session = session_manager.get_session(session_id)
            thr' = [thr EXCEPT ![t] = Call([thr[t] EXCEPT !.gsid = thr[t].arg_sid,
                                                          !.sid = thr[t].arg_sid],
                                           "g_lookup", "gen_got")]
    /\ heap' = Collect(heap, sessions, thr')
    /\ UNCHANGED <<clock, max_sessions, session_timeout, sessions, lock, issued, prev>>

\* wait_exponential between attempts, then the function runs again
gen_backoff(t) ==
    /\ thr[t].pc = "gen_backoff"
    /\ thr' = [thr EXCEPT ![t].pc = "gen_validate", ![t].attempt = thr[t].attempt + 1]
    /\ UNCHANGED <<clock, max_sessions, session_timeout, sessions, heap, lock, issued, prev>>

\* session_id = create_session() returned or raised (either call site);
\* session = session_manager.get_session(session_id)
gen_created(t) ==
    /\ thr[t].pc \in {"gen_created1", "gen_created2"}
    /\ IF thr[t].exc = "SessionError"
       THEN thr' = [thr EXCEPT ![t] = GenRaise(thr[t])]
       ELSE thr' = [thr EXCEPT ![t] =
                Call([thr[t] EXCEPT !.gsid = thr[t].res, !.sid = thr[t].res, !.res = 0],
                     "g_lookup",
                     IF thr[t].pc = "gen_created1" THEN "gen_got" ELSE "gen_memo")]
    /\ heap' = Collect(heap, sessions, thr')
    /\ UNCHANGED <<clock, max_sessions, session_timeout, sessions, lock, issued, prev>>

\* if not session: session_id = session_manager.create_session()
gen_got(t) ==
    /\ thr[t].pc = "gen_got"
    /\ IF thr[t].sess = 0
       THEN /\ CanCreate
            /\ thr' = [thr EXCEPT ![t] = Call(thr[t], "c_lock", "gen_created2")]
       ELSE thr' = [thr EXCEPT ![t].pc = "gen_memo"]
    /\ UNCHANGED <<clock, max_sessions, session_timeout, sessions, heap, lock, issued, prev>>

\* the memo check, had the stored paths counted only for the responses the
\* session holds when they are the responses of the call
gen_memo_keyed(t) ==
    /\ thr[t].pc = "gen_memo"
    /\ IF thr[t].sess = 0
       THEN thr' = [thr EXCEPT ![t] = GenRaise(thr[t])]
       ELSE IF /\ Truthy(heap[thr[t].sess].user_data, "ikiguide_paths")
               /\ "responses" \in DOMAIN heap[thr[t].sess].user_data
               /\ heap[thr[t].sess].user_data["responses"] = thr[t].resp
       THEN thr' = [thr EXCEPT ![t] = Ret([thr[t] EXCEPT
                        !.paths = heap[thr[t].sess].user_data["ikiguide_paths"],
                        !.hit = TRUE, !.sess = 0])]
       ELSE thr' = [thr EXCEPT ![t].pc = "gen_wait", ![t].calls = thr[t].calls + 1]
    /\ heap' = Collect(heap, sessions, thr')
    /\ UNCHANGED <<clock, max_sessions, session_timeout, sessions, lock, issued, prev>>

\* existing_paths = ...get('ikiguide_paths'); if existing_paths: return;
\* otherwise the Generator is called.  The OpenAI client is taken to be
\* initialised at import, so `if not client` does not return.
gen_memo(t) ==
    /\ thr[t].pc = "gen_memo"
    /\ IF thr[t].sess = 0
       THEN \* session is None: AttributeError
            thr' = [thr EXCEPT ![t] = GenRaise(thr[t])]
       ELSE IF Truthy(heap[thr[t].sess].user_data, "ikiguide_paths")
       THEN thr' = [thr EXCEPT ![t] = Ret([thr[t] EXCEPT
                        !.paths = heap[thr[t].sess].user_data["ikiguide_paths"],
                        !.hit = TRUE, !.sess = 0])]
       ELSE thr' = [thr EXCEPT ![t].pc = "gen_wait", ![t].calls = thr[t].calls + 1]
    /\ heap' = Collect(heap, sessions, thr')
    /\ UNCHANGED <<clock, max_sessions, session_timeout, sessions, lock, issued, prev>>

\* what a successful Generator call may yield, split into lines
GenOutputs == {<<>>, <<"p1">>, <<"p2">>}

\* the Generator call returns, had the write-back gone to the id the caller
\* gave
gen_success_under_given(t, out) ==
    /\ thr[t].pc = "gen_wait"
    /\ thr' = [thr EXCEPT ![t] =
                Call(Call([thr[t] EXCEPT !.paths = out,
                                         !.sid = IF thr[t].arg_sid # NoId
                                                 THEN thr[t].arg_sid
                                                 ELSE thr[t].gsid,
                                         !.data = PathsPatchOf(out), !.sess = 0],
                          "u_merge", "gen_stored"),
                     "g_lookup", "u_merge")]
    /\ heap' = Collect(heap, sessions, thr')
    /\ UNCHANGED <<clock, max_sessions, session_timeout, sessions, lock, issued, prev>>

\* the Generator call returns: update_session(session_id, {'ikiguide_paths': paths})
gen_success(t, out) ==
    /\ thr[t].pc = "gen_wait"
    /\ thr' = [thr EXCEPT ![t] =
                Call(Call([thr[t] EXCEPT !.paths = out, !.sid = thr[t].gsid,
                                         !.data = PathsPatchOf(out), !.sess = 0],
                          "u_merge", "gen_stored"),
                     "g_lookup", "u_merge")]
    /\ heap' = Collect(heap, sessions, thr')
    /\ UNCHANGED <<clock, max_sessions, session_timeout, sessions, lock, issued, prev>>

\* the Generator call raises, had the handler recorded the error entry in
\* the session before returning it
gen_failure_recorded(t) ==
    /\ thr[t].pc = "gen_wait"
    /\ thr' = [thr EXCEPT ![t] = Ret([thr[t] EXCEPT !.paths = ErrorPaths,
                                                   !.failed = TRUE, !.sess = 0])]
    /\ heap' = Collect([heap EXCEPT ![thr[t].sess].user_data =
                            DictUpdate(heap[thr[t].sess].user_data,
                                       PathsPatchOf(ErrorPaths))],
                       sessions, thr')
    /\ UNCHANGED <<clock, max_sessions, session_timeout, sessions, lock, issued, prev>>

\* the Generator call raises: except Exception: return the error entry
gen_failure(t) ==
    /\ thr[t].pc = "gen_wait"
    /\ thr' = [thr EXCEPT ![t] = Ret([thr[t] EXCEPT !.paths = ErrorPaths,
                                                   !.failed = TRUE, !.sess = 0])]
    /\ heap' = Collect(heap, sessions, thr')
    /\ UNCHANGED <<clock, max_sessions, session_timeout, sessions, lock, issued, prev>>

\* update_session returned; its result is not looked at
gen_stored(t) ==
    /\ thr[t].pc = "gen_stored"
    /\ thr' = [thr EXCEPT ![t] = Ret([thr[t] EXCEPT !.res = 0])]
    /\ UNCHANGED <<clock, max_sessions, session_timeout, sessions, heap, lock, issued, prev>>

generate_ikiguide_with_retry(t, outs) ==
    \/ gen_validate(t)
    \/ gen_backoff(t)
    \/ gen_created(t)
    \/ gen_got(t)
    \/ gen_memo(t)
    \/ \E out \in outs : gen_success(t, out)
    \/ gen_failure(t)
    \/ gen_stored(t)

\* get_session_id, had it started a new session whatever the cookie
get_session_id_fresh(t) ==
    /\ thr[t].pc \in {"gsi_start", "gsi_got", "gsi_created"}
    /\ LET loc == thr[t] IN
       CASE loc.pc = "gsi_start" ->
              /\ CanCreate
              /\ thr' = [thr EXCEPT ![t] = Call(loc, "c_lock", "gsi_created")]
         [] loc.pc = "gsi_got" ->
              /\ CanCreate
              /\ thr' = [thr EXCEPT ![t] = Call(loc, "c_lock", "gsi_created")]
         [] loc.pc = "gsi_created" ->
              IF loc.exc = "SessionError"
              THEN thr' = [thr EXCEPT ![t] = Ret([loc EXCEPT !.exc = "APIError500"])]
              ELSE thr' = [thr EXCEPT ![t] = Ret(loc)]
    /\ heap' = Collect(heap, sessions, thr')
    /\ UNCHANGED <<clock, max_sessions, session_timeout, sessions, lock, issued, prev>>

\* ------------------------------------------------------- get_session_id
\* session_id = request.cookies.get("session_id"); validate, or create
get_session_id(t) ==
    /\ thr[t].pc \in {"gsi_start", "gsi_got", "gsi_created"}
    /\ LET loc == thr[t] IN
       CASE loc.pc = "gsi_start" ->
              IF loc.cookie # NoId
              THEN thr' = [thr EXCEPT ![t] = Call([loc EXCEPT !.sid = loc.cookie],
                                                  "g_lookup", "gsi_got")]
              ELSE /\ CanCreate
                   /\ thr' = [thr EXCEPT ![t] = Call(loc, "c_lock", "gsi_created")]
         [] loc.pc = "gsi_got" ->
              IF loc.sess # 0
              THEN thr' = [thr EXCEPT ![t] = Ret([loc EXCEPT !.res = loc.cookie,
                                                            !.sess = 0])]
              ELSE /\ CanCreate
                   /\ thr' = [thr EXCEPT ![t] = Call(loc, "c_lock", "gsi_created")]
         [] loc.pc = "gsi_created" ->
              IF loc.exc = "SessionError"
              THEN \* raise APIError("Unable to create session", status_code=500)
                   thr' = [thr EXCEPT ![t] = Ret([loc EXCEPT !.exc = "APIError500"])]
              ELSE thr' = [thr EXCEPT ![t] = Ret(loc)]
    /\ heap' = Collect(heap, sessions, thr')
    /\ UNCHANGED <<clock, max_sessions, session_timeout, sessions, lock, issued, prev>>

\* ---------------------------------------------------------- get_results
\* the responses get_results reads from the session and passes on, or the
\* sentinel for APIError("Incomplete user responses", 400)
Incomplete == <<Entry("incomplete", FALSE, "")>>
ResultsBundle(b) ==
    IF AllInt(b)
    THEN IF Len(b) = 4 THEN ZipRequired(b) ELSE Incomplete
    ELSE IF HasRequired(b) THEN b ELSE Incomplete

\* if not session_id: session_id = get_session_id(request)
results_resolve(t) ==
    /\ thr[t].pc \in {"res_start", "res_resolved"}
    /\ LET loc == thr[t] IN
       CASE loc.pc = "res_start" ->
              IF loc.rsid = NoId
              THEN thr' = [thr EXCEPT ![t] = Call(loc, "gsi_start", "res_resolved")]
              ELSE thr' = [thr EXCEPT ![t] = Call([loc EXCEPT !.sid = loc.rsid],
                                                  "g_lookup", "res_got")]
         [] loc.pc = "res_resolved" ->
              IF loc.exc = "APIError500"
              THEN thr' = [thr EXCEPT ![t] = Ret(loc)]
              ELSE \* session = session_manager.get_session(session_id)
                   thr' = [thr EXCEPT ![t] = Call([loc EXCEPT !.rsid = loc.res,
                                                             !.sid = loc.res,
                                                             !.res = 0],
                                                  "g_lookup", "res_got")]
    /\ UNCHANGED <<clock, max_sessions, session_timeout, sessions, heap, lock, issued, prev>>

\* validate the session's responses, then await generate_ikiguide(...)
results_validate(t) ==
    /\ thr[t].pc = "res_got"
    /\ LET loc == thr[t]
           ud == heap[loc.sess].user_data
           b == IF "responses" \in DOMAIN ud THEN ud["responses"] ELSE <<>>
       IN
       IF loc.sess = 0
       THEN thr' = [thr EXCEPT ![t] = Ret([loc EXCEPT !.exc = "APIError404"])]
       ELSE IF ResultsBundle(b) = Incomplete \/ AllTesting(ResultsBundle(b))
       THEN thr' = [thr EXCEPT ![t] = Ret([loc EXCEPT !.exc = "APIError400",
                                                     !.resp = b, !.sess = 0])]
       ELSE thr' = [thr EXCEPT ![t] =
                Call([loc EXCEPT !.resp = ResultsBundle(b), !.arg_sid = loc.rsid,
                                 !.attempt = 1, !.sess = 0],
                     "gen_validate", "res_done")]
    /\ heap' = Collect(heap, sessions, thr')
    /\ UNCHANGED <<clock, max_sessions, session_timeout, sessions, lock, issued, prev>>

\* return ikiguide_result, or APIError("Failed to generate Ikigai paths", 500)
results_done(t) ==
    /\ thr[t].pc = "res_done"
    /\ thr' = [thr EXCEPT ![t] = Ret([thr[t] EXCEPT !.exc =
                    IF thr[t].exc = "RetryError" THEN "APIError500" ELSE thr[t].exc])]
    /\ UNCHANGED <<clock, max_sessions, session_timeout, sessions, heap, lock, issued, prev>>

get_results(t) == results_resolve(t) \/ results_validate(t) \/ results_done(t)

\* ------------------------------------------------- callers of the store
\* the ids a caller may present: every id issued so far, and one never issued
CallerIds == (1..issued) \cup {ForeignId}

\* the patches callers pass to update_session
NotePatch == [k \in {"note"} |-> <<"n">>]
StorePatches == {NotePatch}

StartCreate(t) ==
    /\ thr[t].pc = "idle"
    /\ CanCreate
    /\ thr' = [thr EXCEPT ![t] = [Idle EXCEPT !.pc = "c_lock", !.op = "create"]]
    /\ prev' = NoPrev
    /\ UNCHANGED <<clock, max_sessions, session_timeout, sessions, heap, lock, issued>>

StartGet(t, id) ==
    /\ thr[t].pc = "idle"
    /\ thr' = [thr EXCEPT ![t] = [Idle EXCEPT !.pc = "g_lookup", !.op = "get",
                                               !.sid = id]]
    /\ prev' = NoPrev
    /\ UNCHANGED <<clock, max_sessions, session_timeout, sessions, heap, lock, issued>>

\* session = self.get_session(session_id)
StartUpdate(t, id, patch) ==
    /\ thr[t].pc = "idle"
    /\ thr' = [thr EXCEPT ![t] = Call([Idle EXCEPT !.op = "update", !.sid = id,
                                                    !.data = patch],
                                      "g_lookup", "u_merge")]
    /\ prev' = NoPrev
    /\ UNCHANGED <<clock, max_sessions, session_timeout, sessions, heap, lock, issued>>

StartDelete(t, id) ==
    /\ thr[t].pc = "idle"
    /\ thr' = [thr EXCEPT ![t] = [Idle EXCEPT !.pc = "d_check", !.op = "delete",
                                               !.sid = id]]
    /\ prev' = NoPrev
    /\ UNCHANGED <<clock, max_sessions, session_timeout, sessions, heap, lock, issued>>

\* await generate_ikiguide_with_retry(responses, session_id)
StartGenerate(t, b, id) ==
    /\ thr[t].pc = "idle"
    /\ thr' = [thr EXCEPT ![t] = [Idle EXCEPT !.pc = "gen_validate", !.op = "generate",
                                               !.resp = b, !.arg_sid = id,
                                               !.attempt = 1]]
    /\ UNCHANGED <<clock, max_sessions, session_timeout, sessions, heap, lock, issued, prev>>

\* GET /results, with the request's cookie and session_id parameter
StartResults(t, cookie, id) ==
    /\ thr[t].pc = "idle"
    /\ thr' = [thr EXCEPT ![t] = [Idle EXCEPT !.pc = "res_start", !.op = "results",
                                               !.cookie = cookie, !.rsid = id]]
    /\ prev' = NoPrev
    /\ UNCHANGED <<clock, max_sessions, session_timeout, sessions, heap, lock, issued>>

\* the caller takes the result and drops its references
Finish(t) ==
    /\ thr[t].pc = "done"
    /\ thr' = [thr EXCEPT ![t] = Idle]
    /\ heap' = Collect(heap, sessions, thr')
    /\ prev' = IF thr[t].op = "generate"
               THEN [sid |-> thr[t].arg_sid, gsid |-> thr[t].gsid,
                     resp |-> thr[t].resp, paths |-> thr[t].paths,
                     calls |-> thr[t].calls, failed |-> thr[t].failed,
                     exc |-> thr[t].exc]
               ELSE NoPrev
    /\ UNCHANGED <<clock, max_sessions, session_timeout, sessions, lock, issued>>

\* the same, where no history is kept
Drop(t) ==
    /\ thr[t].pc = "done"
    /\ thr' = [thr EXCEPT ![t] = Idle]
    /\ heap' = Collect(heap, sessions, thr')
    /\ UNCHANGED <<clock, max_sessions, session_timeout, sessions, lock, issued, prev>>

StoreStep(t) ==
    \/ create_session(t)
    \/ get_session(t)
    \/ update_session(t)
    \/ delete_session(t)

StoreCall(t) ==
    \/ StartCreate(t)
    \/ \E id \in CallerIds : StartGet(t, id)
    \/ \E id \in CallerIds, p \in StorePatches : StartUpdate(t, id, p)
    \/ \E id \in CallerIds : StartDelete(t, id)

\* the store under concurrent callers
Next ==
    \/ Tick
    \/ \E t \in Threads : StoreCall(t)
    \/ \E t \in Threads : StoreStep(t)
    \/ \E t \in Threads : Finish(t)

Spec == Init /\ [][Next]_vars

\* ------------------------------------------- callers of the protocol
RFull == <<Entry("good_at", FALSE, "a1"), Entry("love", FALSE, "a2"),
           Entry("world_needs", FALSE, "a3"), Entry("paid_for", FALSE, "a4")>>
RPartial == <<Entry("good_at", FALSE, "a1")>>
RNumFull == <<Entry("1", TRUE, "a1"), Entry("2", TRUE, "a2"),
              Entry("3", TRUE, "a3"), Entry("4", TRUE, "a4")>>
RNumPartial == <<Entry("1", TRUE, "a1")>>

\* the protocol called directly, one call at a time
SeqBundles == {RFull, RPartial}

SeqCall(t) ==
    \/ StartCreate(t)
    \/ \E id \in CallerIds : StartDelete(t, id)
    \/ \E b \in SeqBundles, id \in CallerIds \cup {NoId} : StartGenerate(t, b, id)

SeqStep(t) ==
    \/ StoreStep(t)
    \/ Finish(t)
    \/ generate_ikiguide_with_retry(t, GenOutputs)

NextSeq ==
    \/ SeqCall(1)
    \/ SeqStep(1)

SpecSeq == InitGen /\ [][NextSeq]_vars

\* GET /results on the responses a session holds, and the protocol called
\* directly, one call at a time
ResBundles == {RFull, RPartial, RNumFull, RNumPartial}

ResCall(t) ==
    \/ \E id \in CallerIds, b \in ResBundles : StartUpdate(t, id, ResponsesPatchOf(b))
    \/ \E id \in CallerIds : StartDelete(t, id)
    \/ \E b \in ResBundles, id \in CallerIds \cup {NoId} : StartGenerate(t, b, id)
    \/ \E c \in CallerIds \cup {NoId}, id \in CallerIds \cup {NoId} :
            StartResults(t, c, id)

ResStep(t) ==
    \/ StoreStep(t)
    \/ Finish(t)
    \/ generate_ikiguide_with_retry(t, {<<"p1">>})
    \/ get_session_id(t)
    \/ get_results(t)

NextRes ==
    \/ ResCall(1)
    \/ ResStep(1)

SpecRes == InitGen /\ [][NextRes]_vars

\* the protocol under concurrent callers
GenPatches == {NotePatch, PathsPatchOf(<<"px">>)}

GenCall(t) ==
    \/ StartCreate(t)
    \/ \E id \in CallerIds, p \in GenPatches : StartUpdate(t, id, p)
    \/ \E id \in CallerIds : StartDelete(t, id)
    \/ \E id \in CallerIds \cup {NoId} : StartGenerate(t, RFull, id)

GenStep(t) ==
    \/ StoreStep(t)
    \/ Drop(t)
    \/ generate_ikiguide_with_retry(t, {<<"p1">>, <<"p2">>})

NextGen ==
    \/ \E t \in Threads : GenCall(t)
    \/ \E t \in Threads : GenStep(t)

SpecGen == InitGen /\ [][NextGen]_vars

\* ------------------------------------------------ a repeated uuid
\* session_id = str(uuid.uuid4()), where uuid4 returns the id of a record
\* that is in the store
create_build_collide(t) ==
    /\ thr[t].pc = "c_build"
    /\ \E id \in KeysOf(sessions) :
        thr' = [thr EXCEPT ![t].sid = id, ![t].ca = clock, ![t].collided = TRUE,
                           ![t].pc = "c_insert"]
    /\ UNCHANGED <<clock, max_sessions, session_timeout, sessions, heap, lock, issued, prev>>

CollideStep(t) ==
    \/ StoreStep(t)
    \/ create_build_collide(t)
    \/ Finish(t)

\* the store under one caller at a time, with uuids that may repeat
NextCollide ==
    \/ StoreCall(1)
    \/ CollideStep(1)

SpecCollide == Configured(0..MaxCap, {MaxTimeout}) /\ [][NextCollide]_vars

\* ------------------------------------------ Session.set_user_responses
\* self._session_data['user_responses'] = responses;
\* self._session_data['last_activity'] = datetime.now()
set_user_responses(t) ==
    /\ thr[t].pc = "s_set"
    /\ thr' = [thr EXCEPT ![t] = Ret([thr[t] EXCEPT !.resp = <<>>])]
    /\ heap' = IF thr[t].sess # 0
               THEN [heap EXCEPT ![thr[t].sess].user_responses = thr[t].resp,
                                 ![thr[t].sess].last_activity = clock]
               ELSE heap
    /\ UNCHANGED <<clock, max_sessions, session_timeout, sessions, lock, issued, prev>>

\* session = get_session(id); session.set_user_responses(b), when found
StartSetResponses(t, id, b) ==
    /\ thr[t].pc = "idle"
    /\ thr' = [thr EXCEPT ![t] = Call([Idle EXCEPT !.op = "setresp", !.sid = id,
                                                    !.resp = b],
                                      "g_lookup", "s_set")]
    /\ prev' = NoPrev
    /\ UNCHANGED <<clock, max_sessions, session_timeout, sessions, heap, lock, issued>>

\* the store under one caller at a time
NoteTwo == [k \in {"note"} |-> <<"m">>]
TagPatch == [k \in {"tag"} |-> <<"x">>]
OnePatches == {NotePatch, NoteTwo, TagPatch}

OneCall(t) ==
    \/ StartCreate(t)
    \/ \E id \in CallerIds : StartGet(t, id)
    \/ \E id \in CallerIds, p \in OnePatches : StartUpdate(t, id, p)
    \/ \E id \in CallerIds : StartDelete(t, id)
    \/ \E id \in CallerIds : StartSetResponses(t, id, RFull)

OneStep(t) ==
    \/ StoreStep(t)
    \/ set_user_responses(t)
    \/ Finish(t)

NextOne ==
    \/ Tick
    \/ OneCall(1)
    \/ OneStep(1)

SpecOne == Init /\ [][NextOne]_vars

\* --------------------------------------- results after an edit
\* a second complete set of answers
RAlt == <<Entry("good_at", FALSE, "b1"), Entry("love", FALSE, "b2"),
          Entry("world_needs", FALSE, "b3"), Entry("paid_for", FALSE, "b4")>>
StaleBundles == {RFull, RAlt}

\* the paths of a Generator reply, told apart by the answers in the prompt
GenFor(b) == IF b = RFull THEN <<"p1">> ELSE <<"p2">>

StaleCall(t) ==
    \/ \E id \in CallerIds, b \in StaleBundles : StartUpdate(t, id, ResponsesPatchOf(b))
    \/ \E id \in CallerIds : StartDelete(t, id)
    \/ \E b \in StaleBundles, id \in CallerIds \cup {NoId} : StartGenerate(t, b, id)
    \/ \E c \in CallerIds \cup {NoId}, id \in CallerIds \cup {NoId} :
            StartResults(t, c, id)

StaleStep(t) ==
    \/ StoreStep(t)
    \/ Drop(t)
    \/ generate_ikiguide_with_retry(t, {GenFor(thr[t].resp), <<>>})
    \/ get_session_id(t)
    \/ get_results(t)

\* responses saved, results requested, responses edited, results requested
\* again: one caller at a time
NextStale ==
    \/ StaleCall(1)
    \/ StaleStep(1)

SpecStale == InitGen /\ [][NextStale]_vars

\* ------------------------------------------ end_session, reset_session
\* DELETE /end_session: session_id = get_session_id(request);
\* deleted = session_manager.delete_session(session_id)
end_session(t) ==
    /\ thr[t].pc \in {"end_start", "end_resolved", "end_deleted"}
    /\ LET loc == thr[t] IN
       CASE loc.pc = "end_start" ->
              thr' = [thr EXCEPT ![t] = Call(loc, "gsi_start", "end_resolved")]
         [] loc.pc = "end_resolved" ->
              IF loc.exc = "APIError500"
              THEN \* get_session_id is called outside the try block
                   thr' = [thr EXCEPT ![t] = Ret(loc)]
              ELSE thr' = [thr EXCEPT ![t] = Call([loc EXCEPT !.sid = loc.res,
                                                             !.res = 0],
                                                  "d_check", "end_deleted")]
         [] loc.pc = "end_deleted" ->
              IF loc.res = 1
              THEN thr' = [thr EXCEPT ![t] = Ret(loc)]
              ELSE \* APIError(400), caught and raised again as
                   \* APIError("Unable to terminate session", 500)
                   thr' = [thr EXCEPT ![t] = Ret([loc EXCEPT !.exc = "APIError500"])]
    /\ UNCHANGED <<clock, max_sessions, session_timeout, sessions, heap, lock, issued, prev>>

\* POST /reset_session:
\* session_id = session_data.get('session_id') or get_session_id(request);
\* await end_session(request).  get_session_id returns an id or raises, so
\* `if not session_id` does not raise; every exception leaves as
\* APIError("Unable to reset session", 500)
reset_session(t) ==
    /\ thr[t].pc \in {"rst_start", "rst_resolved", "rst_ended"}
    /\ LET loc == thr[t] IN
       CASE loc.pc = "rst_start" ->
              IF loc.rsid # NoId
              THEN thr' = [thr EXCEPT ![t] = Call(loc, "end_start", "rst_ended")]
              ELSE thr' = [thr EXCEPT ![t] = Call(loc, "gsi_start", "rst_resolved")]
         [] loc.pc = "rst_resolved" ->
              IF loc.exc = "APIError500"
              THEN thr' = [thr EXCEPT ![t] = Ret(loc)]
              ELSE thr' = [thr EXCEPT ![t] = Call([loc EXCEPT !.rsid = loc.res,
                                                             !.res = 0],
                                                  "end_start", "rst_ended")]
         [] loc.pc = "rst_ended" ->
              thr' = [thr EXCEPT ![t] = Ret(loc)]
    /\ UNCHANGED <<clock, max_sessions, session_timeout, sessions, heap, lock, issued, prev>>

\* DELETE /end_session with the request's cookie
StartEnd(t, cookie) ==
    /\ thr[t].pc = "idle"
    /\ thr' = [thr EXCEPT ![t] = [Idle EXCEPT !.pc = "end_start", !.op = "end",
                                               !.cookie = cookie]]
    /\ UNCHANGED <<clock, max_sessions, session_timeout, sessions, heap, lock, issued, prev>>

\* POST /reset_session with the request's cookie and the body's session_id
StartReset(t, cookie, id) ==
    /\ thr[t].pc = "idle"
    /\ thr' = [thr EXCEPT ![t] = [Idle EXCEPT !.pc = "rst_start", !.op = "reset",
                                               !.cookie = cookie, !.rsid = id]]
    /\ UNCHANGED <<clock, max_sessions, session_timeout, sessions, heap, lock, issued, prev>>

ResetCall(t) ==
    \/ StartCreate(t)
    \/ \E c \in CallerIds \cup {NoId} : StartEnd(t, c)
    \/ \E c \in CallerIds \cup {NoId}, id \in CallerIds \cup {NoId} :
            StartReset(t, c, id)

ResetStep(t) ==
    \/ create_session(t)
    \/ get_session(t)
    \/ delete_session(t)
    \/ get_session_id(t)
    \/ end_session(t)
    \/ reset_session(t)
    \/ Drop(t)

\* sessions started, ended and reset, one request at a time
NextReset ==
    \/ ResetCall(1)
    \/ ResetStep(1)

SpecReset == Configured(0..MaxCap, {MaxTimeout}) /\ [][NextReset]_vars

\* ------------------------------------- the store and the protocol
\* every operation on the store and the protocol, one caller at a time,
\* while time passes
LifeCall(t) ==
    \/ StartCreate(t)
    \/ \E id \in CallerIds : StartGet(t, id)
    \/ \E id \in CallerIds : StartUpdate(t, id, NotePatch)
    \/ \E id \in CallerIds : StartDelete(t, id)
    \/ \E id \in CallerIds : StartSetResponses(t, id, RFull)
    \/ \E id \in CallerIds \cup {NoId} : StartGenerate(t, RFull, id)

LifeStep(t) ==
    \/ StoreStep(t)
    \/ set_user_responses(t)
    \/ generate_ikiguide_with_retry(t, GenOutputs)
    \/ Drop(t)

NextLife ==
    \/ Tick
    \/ LifeCall(1)
    \/ LifeStep(1)

SpecLife == Init /\ [][NextLife]_vars

\* ------------------------------------------------------- start_session
\* POST /start_session: the cookie's session if it is valid, or a new one;
\* SessionError leaves as APIError("Session initialization failed", 500)
start_session(t) ==
    /\ thr[t].pc \in {"ss_start", "ss_got", "ss_created"}
    /\ LET loc == thr[t] IN
       CASE loc.pc = "ss_start" ->
              IF loc.cookie # NoId
              THEN thr' = [thr EXCEPT ![t] = Call([loc EXCEPT !.sid = loc.cookie],
                                                  "g_lookup", "ss_got")]
              ELSE /\ CanCreate
                   /\ thr' = [thr EXCEPT ![t] = Call(loc, "c_lock", "ss_created")]
         [] loc.pc = "ss_got" ->
              IF loc.sess # 0
              THEN thr' = [thr EXCEPT ![t] = Ret([loc EXCEPT !.res = loc.cookie,
                                                            !.sess = 0])]
              ELSE /\ CanCreate
                   /\ thr' = [thr EXCEPT ![t] = Call(loc, "c_lock", "ss_created")]
         [] loc.pc = "ss_created" ->
              IF loc.exc = "SessionError"
              THEN thr' = [thr EXCEPT ![t] = Ret([loc EXCEPT !.exc = "APIError500"])]
              ELSE thr' = [thr EXCEPT ![t] = Ret(loc)]
    /\ heap' = Collect(heap, sessions, thr')
    /\ UNCHANGED <<clock, max_sessions, session_timeout, sessions, lock, issued, prev>>

\* get_session_id(request) with the request's cookie
StartResolve(t, cookie) ==
    /\ thr[t].pc = "idle"
    /\ thr' = [thr EXCEPT ![t] = [Idle EXCEPT !.pc = "gsi_start", !.op = "resolve",
                                               !.cookie = cookie]]
    /\ UNCHANGED <<clock, max_sessions, session_timeout, sessions, heap, lock, issued, prev>>

\* POST /start_session with the request's cookie
StartSession(t, cookie) ==
    /\ thr[t].pc = "idle"
    /\ thr' = [thr EXCEPT ![t] = [Idle EXCEPT !.pc = "ss_start", !.op = "start",
                                               !.cookie = cookie]]
    /\ UNCHANGED <<clock, max_sessions, session_timeout, sessions, heap, lock, issued, prev>>

ResolveCall(t) ==
    \/ \E id \in CallerIds : StartDelete(t, id)
    \/ \E c \in CallerIds \cup {NoId} : StartResolve(t, c)
    \/ \E c \in CallerIds \cup {NoId} : StartSession(t, c)

ResolveStep(t) ==
    \/ create_session(t)
    \/ get_session(t)
    \/ delete_session(t)
    \/ get_session_id(t)
    \/ start_session(t)
    \/ Drop(t)

\* sessions resolved from cookies and deleted, one request at a time
NextResolve ==
    \/ ResolveCall(1)
    \/ ResolveStep(1)

SpecResolve == Configured(0..MaxCap, {MaxTimeout}) /\ [][NextResolve]_vars

\* ------------------------------------------- creators under a scheduler
\* the statements of create_session inside the with block
create_inside(t) ==
    \/ cleanup_expired_sessions(t)
    \/ create_check(t)
    \/ create_evict(t)
    \/ create_build(t)
    \/ create_insert(t)
    \/ create_return(t)
    \/ create_except(t)

FairCall(t) ==
    \/ StartCreate(t)
    \/ \E id \in CallerIds : StartDelete(t, id)

FairStep(t) ==
    \/ create_acquire(t)
    \/ create_inside(t)
    \/ delete_session(t)
    \/ Drop(t)

NextFair ==
    \/ \E t \in Threads : FairCall(t)
    \/ \E t \in Threads : FairStep(t)

\* a thread inside the with block keeps running; a thread waiting for a lock
\* that is free again and again gets it
Fairness ==
    \A t \in Threads : WF_vars(create_inside(t)) /\ SF_vars(create_acquire(t))

\* create_session and delete_session under concurrent callers and a fair
\* scheduler
SpecFair == Configured(0..MaxCap, {MaxTimeout}) /\ [][NextFair]_vars /\ Fairness

\* ============================================================ properties
\* the record the mapping holds for id
RecOf(id) == heap[ObjOf(sessions, id)]
\* thread t is inside create_session's with block
InCritical(t) ==
    thr[t].pc \in {"c_sweep", "c_expdel", "c_over", "c_overloop", "c_check",
                   "c_evict", "c_build", "c_insert", "c_return", "c_except"}
\* a create_session call of t has just returned its id
CreateReturned(t) ==
    thr[t].pc = "done" /\ thr[t].op = "create" /\ thr[t].exc = "none"

\* C1: whenever a create_session call returns, the store holds at most
\* max_sessions records, and no two threads are inside the critical section
\* of create_session at once
C1_AtMostMaxSessions ==
    /\ \A t \in Threads :
        (thr[t].pc = "c_return" \/ CreateReturned(t)) => Len(sessions) <= max_sessions
    /\ \A t, u \in Threads : InCritical(t) /\ InCritical(u) => t = u

\* a creator returns into a full store of two while the other creator waits
\* for the lock
C1_Witness ==
    /\ thr[1].pc = "c_return"
    /\ thr[2].pc = "c_lock"
    /\ max_sessions = 2
    /\ Len(sessions) = max_sessions

\* C2: when a create_session call returns, every record of the store has an
\* age, now - created_at, of at most session_timeout hours
C2_NoExpiredAtReturn ==
    \A t \in Threads :
        thr[t].pc = "c_return" =>
            \A id \in KeysOf(sessions) : clock - RecOf(id).created_at <= session_timeout

\* a create_session call returns after its sweep removed an expired record and
\* kept a younger one, which had been touched in the meantime
C2_Witness ==
    \E t \in Threads :
        /\ thr[t].pc = "c_return"
        /\ thr[t].nexp > 0
        /\ \E id \in KeysOf(sessions) :
            /\ RecOf(id).created_at < clock
            /\ RecOf(id).last_activity > RecOf(id).created_at

\* C3: the record create_session evicts from a store at capacity is one with
\* the smallest created_at, whatever the last_activity of the records, and it
\* evicts that record only
C3_EvictsOldestCreated ==
    [][\A t \in Threads :
        (thr[t].pc = "c_evict" /\ thr'[t].pc = "c_build") =>
            \E id \in KeysOf(sessions) :
                /\ \A j \in KeysOf(sessions) : RecOf(id).created_at <= RecOf(j).created_at
                /\ KeysOf(sessions') = KeysOf(sessions) \ {id}
                /\ sessions' = DictDel(sessions, id)]_vars

\* create_session has evicted the oldest-created record although it was
\* touched after a younger record that stays
C3_Witness ==
    \E t \in Threads :
        /\ thr[t].pc = "c_build"
        /\ thr[t].oldest # NoId
        /\ ~Has(sessions, thr[t].oldest)
        /\ \E j \in KeysOf(sessions) :
            /\ heap[thr[t].oldest].created_at >= 0
            /\ heap[thr[t].oldest].created_at < RecOf(j).created_at
            /\ heap[thr[t].oldest].last_activity > RecOf(j).last_activity

\* thread t runs a protocol call that directly follows the protocol call
\* recorded in prev, for the same given session id and the same responses
Successive(t) ==
    /\ thr[t].op = "generate"
    /\ prev.calls >= 0
    /\ thr[t].arg_sid # NoId
    /\ prev.sid = thr[t].arg_sid
    /\ prev.resp = thr[t].resp
\* the call recorded in prev ran on the live session it was given and ended
\* with a non-empty path sequence that was not the error entry
PrevStored ==
    /\ prev.gsid = prev.sid
    /\ prev.exc = "none"
    /\ ~prev.failed
    /\ prev.paths # <<>>

HasPaths(ud) == "ikiguide_paths" \in DOMAIN ud /\ ud["ikiguide_paths"] # <<>>

C6_FailedCallRetried ==
    \A t \in Threads :
        (thr[t].pc = "done" /\ thr[t].failed) => thr[t].calls = MaxAttempts

\* C7 as stated: a protocol call whose responses lack one of the four
\* answers, under its required key and under its numeric key alike, never
\* calls the Generator
C7_MissingKeyNeverGenerates ==
    \A t \in Threads :
        (/\ thr[t].op = "generate"
         /\ \E i \in 1..4 : /\ ~HasKey(thr[t].resp, RequiredKeys[i], FALSE)
                            /\ ~HasKey(thr[t].resp, NumericKeys[i], TRUE))
        => thr[t].calls = 0

\* object o stays in the store over the step and its non-empty
\* ikiguide_paths does not stay as it is
PathsChange(o) ==
    /\ o \in Stored(sessions)
    /\ o \in Stored(sessions')
    /\ HasPaths(heap[o].user_data)
    /\ \/ "ikiguide_paths" \notin DOMAIN heap'[o].user_data
       \/ heap'[o].user_data["ikiguide_paths"] # heap[o].user_data["ikiguide_paths"]

\* C8: the non-empty ikiguide_paths of a session that stays in the store
\* changes only in the merge of an update_session whose data names
\* ikiguide_paths, and takes the value given there; when that update is the
\* write-back of a generation request, the request found no non-empty
\* ikiguide_paths at its own check and called the Generator once
C8_PathsChangeOnlyByNamedUpdate ==
    [][\A o \in Ids :
        PathsChange(o) =>
            \E t \in Threads :
                /\ thr[t].pc = "u_merge"
                /\ thr'[t].pc = "u_touch"
                /\ thr[t].sess = o
                /\ "ikiguide_paths" \in DOMAIN thr[t].data
                /\ heap'[o].user_data["ikiguide_paths"] = thr[t].data["ikiguide_paths"]
                /\ thr[t].op = "generate" => (thr[t].calls = 1 /\ ~thr[t].hit)]_vars

\* two requests for one session raced: the first has returned p1 from its own
\* Generator call, the second has just written p2 over it
C8_Witness ==
    /\ thr[1].op = "generate" /\ thr[1].pc = "done"
    /\ thr[1].calls = 1 /\ thr[1].paths = <<"p1">>
    /\ thr[2].op = "generate" /\ thr[2].pc = "u_touch"
    /\ thr[2].calls = 1 /\ thr[2].paths = <<"p2">>
    /\ thr[1].gsid = thr[2].gsid
    /\ Has(sessions, thr[1].gsid)
    /\ HasPaths(RecOf(thr[1].gsid).user_data)
    /\ RecOf(thr[1].gsid).user_data["ikiguide_paths"] = <<"p2">>

\* C8 as stated: once a stored session holds an ikiguide_paths value, no step
\* changes it while the session stays in the store
C8_PathsNeverChange ==
    [][\A o \in Ids :
        (/\ o \in Stored(sessions)
         /\ o \in Stored(sessions')
         /\ "ikiguide_paths" \in DOMAIN heap[o].user_data)
        => /\ "ikiguide_paths" \in DOMAIN heap'[o].user_data
           /\ heap'[o].user_data["ikiguide_paths"] = heap[o].user_data["ikiguide_paths"]]_vars

C10_NoLockAcrossGenerator ==
    \A t \in Threads :
        /\ thr[t].pc = "gen_wait" => lock # t
        /\ lock = t => InCritical(t)

\* a create_session call of another thread is about to return, with the lock,
\* while a request waits for its Generator call
C10_Witness ==
    /\ thr[1].pc = "gen_wait"
    /\ thr[1].calls = 1
    /\ thr[2].op = "create"
    /\ thr[2].pc = "c_return"
    /\ lock = 2

\* thread t takes the step
Steps(t) == thr'[t] # thr[t]

C12_ExpiredNotReturned ==
    \A t \in Threads :
        thr[t].pc = "g_touch" =>
            clock - heap[thr[t].h].created_at <= session_timeout

\* C13: update_session(id, patch) for an id that its lookup does not find
\* returns False, and no step of the call changes the mapping or any stored
\* record
C13_UpdateUnknownCreatesNothing ==
    [][\A t \in Threads :
        (thr[t].op = "update" /\ Steps(t)) =>
            /\ sessions' = sessions
            /\ (thr[t].pc = "g_lookup" /\ ~Has(sessions, thr[t].sid)) =>
                (thr'[t].pc = "u_merge" /\ thr'[t].sess = 0)
            /\ (thr[t].pc = "u_merge" /\ thr[t].sess = 0) =>
                /\ thr'[t].pc = "done"
                /\ thr'[t].res = 0
                /\ thr'[t].exc = "none"
                /\ \A o \in Stored(sessions) : heap'[o] = heap[o]]_vars

\* an update_session call has returned False while the store holds records
C13_Witness ==
    \E t \in Threads :
        /\ thr[t].op = "update"
        /\ thr[t].pc = "done"
        /\ thr[t].res = 0
        /\ Len(sessions) = 2

\* C14: update_session(id, patch) for an id its lookup finds merges patch
\* into the record's user_data (every key of patch gets the patch value,
\* every other key keeps its value, no key is lost), sets last_activity to
\* the current time and returns True
C14_UpdateMergesPatch ==
    [][\A t \in Threads :
        (thr[t].op = "update" /\ Steps(t)) =>
            /\ (thr[t].pc = "g_lookup" /\ Has(sessions, thr[t].sid)) =>
                thr'[t].pc = "g_touch"
            /\ (thr[t].pc = "u_merge" /\ thr[t].sess # 0) =>
                LET old == heap[thr[t].sess].user_data
                    new == heap'[thr[t].sess].user_data
                    patch == thr[t].data
                IN /\ thr'[t].pc = "u_touch"
                   /\ DOMAIN new = (DOMAIN old) \cup (DOMAIN patch)
                   /\ \A k \in DOMAIN patch : new[k] = patch[k]
                   /\ \A k \in (DOMAIN old) \ (DOMAIN patch) : new[k] = old[k]
            /\ thr[t].pc = "u_touch" =>
                /\ thr'[t].pc = "done"
                /\ thr'[t].res = 1
                /\ thr'[t].exc = "none"
                /\ thr[t].sess \in Stored(sessions') =>
                    /\ heap'[thr[t].sess].last_activity = clock
                    /\ heap'[thr[t].sess].user_data = heap[thr[t].sess].user_data]_vars

\* an update_session call has returned True on a record created earlier,
\* which now holds the second note over the first and still holds its tag
C14_Witness ==
    \E t \in Threads :
        /\ thr[t].op = "update"
        /\ thr[t].pc = "done"
        /\ thr[t].res = 1
        /\ \E id \in KeysOf(sessions) :
            /\ RecOf(id).user_data = DictUpdate(TagPatch, NoteTwo)
            /\ RecOf(id).last_activity = clock
            /\ RecOf(id).created_at < clock

\* C15: delete_session(id) returns False and changes nothing when its check
\* does not find id; otherwise it removes that record, and no other, and
\* returns True; once a delete_session(id) has returned, id is not in the
\* store, so deleting it again returns False
C15_DeleteRemovesIffPresent ==
    /\ [](\A t \in Threads :
            (thr[t].op = "delete" /\ thr[t].pc = "done") =>
                /\ ~Has(sessions, thr[t].sid)
                /\ thr[t].res \in {0, 1}
                /\ thr[t].exc = "none")
    /\ [][\A t \in Threads :
            (thr[t].op = "delete" /\ Steps(t)) =>
                /\ thr[t].pc = "d_check" =>
                    /\ sessions' = sessions
                    /\ IF Has(sessions, thr[t].sid)
                       THEN thr'[t].pc = "d_del"
                       ELSE thr'[t].pc = "done" /\ thr'[t].res = 0
                /\ thr[t].pc = "d_del" =>
                    /\ thr'[t].pc = "done"
                    /\ thr'[t].res = 1
                    /\ Has(sessions, thr[t].sid)
                    /\ KeysOf(sessions') = KeysOf(sessions) \ {thr[t].sid}
                    /\ \A id \in KeysOf(sessions') :
                        /\ ObjOf(sessions', id) = ObjOf(sessions, id)
                        /\ heap'[ObjOf(sessions, id)] = heap[ObjOf(sessions, id)]]_vars

\* the only id ever issued has been created and deleted, no hour has passed,
\* and a second delete_session of it has returned False
C15_Witness ==
    /\ issued = 1
    /\ clock = 0
    /\ max_sessions >= 1
    /\ thr[1].op = "delete"
    /\ thr[1].pc = "done"
    /\ thr[1].sid = 1
    /\ thr[1].res = 0
    /\ sessions = <<>>

\* C16: every record of the store, and every record a Session still refers
\* to, has created_at <= last_activity
C16_CreatedBeforeActivity ==
    \A o \in Stored(sessions) \cup Held(thr) :
        /\ heap[o].created_at >= 0
        /\ heap[o].created_at <= heap[o].last_activity

\* a stored record was given its responses by set_user_responses an hour or
\* more after it was created, beside a record nobody touched since creation
C16_Witness ==
    \E id, other \in KeysOf(sessions) :
        /\ RecOf(id).user_responses = RFull
        /\ RecOf(id).created_at < RecOf(id).last_activity
        /\ RecOf(other).created_at = RecOf(other).last_activity
        /\ RecOf(other).created_at > 0

\* C17 as stated: a create_session call never raises SessionError; when it
\* returns, it returns a new session id
C17_CreateAlwaysSucceeds ==
    \A t \in Threads :
        /\ thr[t].pc # "c_except"
        /\ (thr[t].op = "create" /\ thr[t].pc = "done") =>
            (thr[t].exc = "none" /\ thr[t].res \in Ids)

\* C18: get_session, update_session and delete_session never raise: a
\* get_session call ends with a Session or None, the other two with True or
\* False; a delete_session whose record another thread removed between its
\* check and its del returns False
C18_StoreCallsTotal ==
    /\ [](\A t \in Threads :
            thr[t].op \in {"get", "update", "delete"} =>
                /\ thr[t].exc = "none"
                /\ thr[t].pc = "done" =>
                    /\ thr[t].op = "get" => thr[t].sess \in {0} \cup Ids
                    /\ thr[t].op \in {"update", "delete"} => thr[t].res \in {0, 1})
    /\ [][\A t \in Threads :
            (thr[t].op = "delete" /\ thr[t].pc = "d_del" /\ Steps(t)
                /\ ~Has(sessions, thr[t].sid)) =>
                /\ thr'[t].pc = "done"
                /\ thr'[t].res = 0
                /\ thr'[t].exc = "none"
                /\ sessions' = sessions]_vars

\* a delete_session call is past its check, and the record it is about to
\* remove has been removed by the other thread's delete_session
C18_Witness ==
    /\ thr[1].op = "delete"
    /\ thr[1].pc = "d_del"
    /\ ~Has(sessions, thr[1].sid)
    /\ thr[2].op = "delete"
    /\ thr[2].pc = "done"
    /\ thr[2].res = 1
    /\ thr[2].sid = thr[1].sid

\* C19: the ids of the stored records are pairwise different, because the
\* mapping is keyed by id; create_session does not look for a collision: when
\* the id it generated is the id of a stored record, its insertion puts the
\* new record in that record's place and the call returns the id without
\* raising
C19_CollisionOverwrites ==
    /\ [](\A i, j \in 1..Len(sessions) : sessions[i].id = sessions[j].id => i = j)
    /\ [][\A t \in Threads :
            (thr[t].collided /\ Steps(t)) =>
                /\ thr[t].pc = "c_insert" =>
                    /\ Has(sessions, thr[t].sid)
                    /\ IdSeq(sessions') = IdSeq(sessions)
                    /\ heap'[ObjOf(sessions', thr[t].sid)] =
                            [created_at |-> thr[t].ca, last_activity |-> clock,
                             user_data |-> thr[t].data, user_responses |-> EmptyDict]
                    /\ thr'[t].pc = "c_return"
                /\ thr[t].pc = "c_return" =>
                    /\ thr'[t].pc = "done"
                    /\ thr'[t].exc = "none"
                    /\ thr'[t].res = thr[t].sid
                    /\ Has(sessions, thr[t].sid)]_vars

\* a create_session call whose id collided has returned that id, and the
\* only record of the store is the new one under it
C19_Witness ==
    /\ thr[1].collided
    /\ thr[1].op = "create"
    /\ thr[1].pc = "done"
    /\ thr[1].exc = "none"
    /\ issued = 1
    /\ thr[1].res = 1
    /\ IdSeq(sessions) = <<1>>
    /\ RecOf(1).user_data = EmptyDict

\* C19 as stated: a create_session call whose generated id is the id of a
\* stored record raises SessionError, and never inserts or returns
C19_CollisionRaises ==
    \A t \in Threads :
        thr[t].collided =>
            /\ thr[t].pc \in {"c_insert", "c_except", "done"}
            /\ thr[t].pc = "done" => thr[t].exc = "SessionError"

\* the records the sweep of t's create_session call has removed so far
RemovedBySweep(t) == thr[t].nexp - Len(thr[t].expired)

\* C20 as stated, for create_session: a call that is about to raise
\* SessionError has removed no record from the mapping
C20_FailedCreateRemovedNothing ==
    \A t \in Threads :
        thr[t].pc = "c_except" => RemovedBySweep(t) = 0

\* thread t is at a statement of update_session or delete_session that
\* writes to the mapping or to a stored record
AtMutation(t) ==
    /\ thr[t].op \in {"update", "delete"}
    /\ \/ thr[t].pc \in {"g_touch", "u_touch", "d_del"}
       \/ thr[t].pc = "u_merge" /\ thr[t].sess # 0

\* C21 as stated: a thread runs a writing statement of update_session or
\* delete_session only while no other thread is inside the with block of
\* create_session, and no two threads are at writing statements at once
C21_MutationsSerialized ==
    \A t, u \in Threads :
        (t # u /\ AtMutation(u)) => (~InCritical(t) /\ ~AtMutation(t))

\* C22 as stated: the record a get_session call is about to touch and hand
\* back as a Session is a record of the store
C22_GetNeverReturnsRemoved ==
    \A t \in Threads :
        thr[t].pc = "g_touch" => thr[t].h \in Stored(sessions)

\* C23: a record leaves the mapping only in the del of a delete_session
\* call for its id, in the expiry sweep of a create_session call when its age
\* exceeds session_timeout, or in the eviction of a create_session call that
\* found the store at capacity; get_session, update_session, set_user_responses and the
\* protocol's own statements remove nothing, and the sweep runs only inside
\* the with block of create_session
C23_RemovedOnlyByDeleteOrCreate ==
    /\ [](\A t \in Threads :
            thr[t].pc \in {"c_sweep", "c_expdel", "c_over", "c_overloop"} =>
                lock = t)
    /\ [][\A id \in KeysOf(sessions) \ KeysOf(sessions') :
            \E t \in Threads :
                /\ Steps(t)
                /\ \/ /\ thr[t].op = "delete"
                      /\ thr[t].pc = "d_del"
                      /\ thr[t].sid = id
                   \/ /\ thr[t].pc = "c_expdel"
                      /\ lock = t
                      /\ thr[t].expired # <<>>
                      /\ Head(thr[t].expired) = id
                      /\ thr[t].now - RecOf(id).created_at > session_timeout
                   \/ /\ thr[t].pc = "c_evict"
                      /\ lock = t
                      /\ thr[t].oldest = id
                      /\ thr[t].n >= max_sessions
                   \/ /\ thr[t].pc = "c_overloop"
                      /\ lock = t
                      /\ Len(sessions) > max_sessions]_vars

\* the sweep of a create_session call has removed one expired record, and
\* the store still holds a younger record that was given responses by
\* set_user_responses and paths by a generation request
C23_Witness ==
    \E t \in Threads :
        /\ thr[t].pc = "c_over"
        /\ thr[t].nexp = 1
        /\ \E id \in KeysOf(sessions) :
            /\ RecOf(id).user_responses = RFull
            /\ "ikiguide_paths" \in DOMAIN RecOf(id).user_data
            /\ RecOf(id).user_data["ikiguide_paths"] = <<"p1">>

\* the elements of a sequence
Range(q) == {q[i] : i \in 1..Len(q)}

\* C24: the sweep of create_session lists exactly the stored records whose
\* age, now - created_at, is strictly greater than session_timeout, whatever
\* their last_activity, and removes the listed records, one a step, and no
\* other; when the sweep is over no stored record is older than the timeout
C24_SweepRemovesExactlyOverAge ==
    /\ [](\A t \in Threads :
            thr[t].pc = "c_over" =>
                \A id \in KeysOf(sessions) :
                    thr[t].now - RecOf(id).created_at <= session_timeout)
    /\ [][\A t \in Threads :
            Steps(t) =>
                /\ thr[t].pc = "c_sweep" =>
                    /\ sessions' = sessions
                    /\ Range(thr'[t].expired) \subseteq KeysOf(sessions)
                    /\ Len(thr'[t].expired) = Cardinality(Range(thr'[t].expired))
                    /\ \A id \in KeysOf(sessions) :
                        id \in Range(thr'[t].expired) <=>
                            clock - RecOf(id).created_at > session_timeout
                /\ (thr[t].pc = "c_expdel" /\ thr[t].expired = <<>>) =>
                    sessions' = sessions
                /\ (thr[t].pc = "c_expdel" /\ thr[t].expired # <<>>
                        /\ Has(sessions, Head(thr[t].expired))) =>
                    /\ KeysOf(sessions') = KeysOf(sessions) \ {Head(thr[t].expired)}
                    /\ thr'[t].expired = Tail(thr[t].expired)
                    /\ \A id \in KeysOf(sessions') : RecOf(id)' = RecOf(id)]_vars

\* the sweep is about to remove a record that is older than the timeout and
\* was touched this very hour, and has not listed a record whose age is
\* exactly the timeout
C24_Witness ==
    \E t \in Threads :
        /\ thr[t].pc = "c_expdel"
        /\ thr[t].expired # <<>>
        /\ Has(sessions, Head(thr[t].expired))
        /\ RecOf(Head(thr[t].expired)).last_activity = thr[t].now
        /\ \E other \in KeysOf(sessions) \ Range(thr[t].expired) :
            thr[t].now - RecOf(other).created_at = session_timeout

\* C25: the memo check looks at the session only, not at the responses: a
\* request whose session holds a non-empty ikiguide_paths returns that
\* sequence and makes no Generator call, whatever responses the session holds
\* by now and whatever responses the request carries
C25_StalePathsReturned ==
    [][\A t \in Threads :
        (/\ thr[t].pc = "gen_memo"
         /\ Steps(t)
         /\ thr[t].sess # 0
         /\ "ikiguide_paths" \in DOMAIN heap[thr[t].sess].user_data
         /\ heap[thr[t].sess].user_data["ikiguide_paths"] # <<>>)
        => /\ thr'[t].paths = heap[thr[t].sess].user_data["ikiguide_paths"]
           /\ thr'[t].calls = 0
           /\ thr'[t].pc # "gen_wait"
           /\ thr'[t].exc = "none"
           /\ sessions' = sessions
           /\ heap'[thr[t].sess].user_data = heap[thr[t].sess].user_data]_vars

\* GET /results has returned, without a Generator call, the paths generated
\* for the first set of answers, for a session that holds the second set
C25_Witness ==
    /\ thr[1].op = "results"
    /\ thr[1].pc = "done"
    /\ thr[1].exc = "none"
    /\ thr[1].hit
    /\ thr[1].calls = 0
    /\ thr[1].resp = RAlt
    /\ thr[1].paths = GenFor(RFull)
    /\ Has(sessions, thr[1].rsid)
    /\ RecOf(thr[1].rsid).user_data["responses"] = RAlt

\* C25 as stated: once a generated result has been written back to a
\* session, whatever the result, no request on that session calls the
\* Generator
C25_GeneratedOnceForSession ==
    \A t \in Threads :
        thr[t].pc = "gen_wait" =>
            "ikiguide_paths" \notin DOMAIN heap[thr[t].sess].user_data

\* the protocol call of t was given a session id and has returned normally
ReturnedForGiven(t) ==
    /\ thr[t].op = "generate"
    /\ thr[t].pc = "done"
    /\ thr[t].exc = "none"
    /\ thr[t].arg_sid # NoId

\* C26: a protocol call given an id that is not in the store creates a
\* session under a fresh id of create_session's own and works on that one:
\* when it returns, the given id is still not in the store, the session id it
\* returns is the fresh id, that session is in the store, and the paths a
\* successful Generator call produced are recorded under it
C26_LazyCreateUnderFreshId ==
    \A t \in Threads :
        ReturnedForGiven(t) =>
            /\ Has(sessions, thr[t].gsid)
            /\ thr[t].gsid # thr[t].arg_sid =>
                /\ ~Has(sessions, thr[t].arg_sid)
                /\ thr[t].gsid = issued
            /\ (thr[t].calls = 1 /\ ~thr[t].failed) =>
                /\ "ikiguide_paths" \in DOMAIN RecOf(thr[t].gsid).user_data
                /\ RecOf(thr[t].gsid).user_data["ikiguide_paths"] = thr[t].paths

\* a call given an id nobody ever issued has returned the paths of its
\* Generator call, recorded under the id of the session it created
C26_Witness ==
    /\ ReturnedForGiven(1)
    /\ thr[1].arg_sid = ForeignId
    /\ thr[1].gsid = 1
    /\ issued = 1
    /\ ~Has(sessions, ForeignId)
    /\ thr[1].paths = <<"p1">>
    /\ RecOf(1).user_data = PathsPatchOf(<<"p1">>)

\* C26 as stated: when a protocol call given an id returns, a session with
\* that id is in the store and the call returns that id
C26_SessionUnderGivenId ==
    \A t \in Threads :
        ReturnedForGiven(t) =>
            /\ thr[t].gsid = thr[t].arg_sid
            /\ Has(sessions, thr[t].arg_sid)

\* C27 as stated: when a request is back from the write-back of the paths
\* its Generator call produced, update_session has found the session and
\* stored them
C27_GeneratedPathsStored ==
    \A t \in Threads :
        thr[t].pc = "gen_stored" => thr[t].res = 1

\* thread t is at a statement of create_session
InCreate(t) == thr[t].pc = "c_lock" \/ InCritical(t)
\* the sessions the statement thread t is at may refer to
Addressed(t) == {thr[t].sid, thr[t].h, thr[t].sess} \ {NoId}

\* C28: a record that stays in the store stays under its id and keeps its
\* created_at; a statement of get_session, update_session, delete_session,
\* set_user_responses or of the protocol outside create_session leaves every
\* record but the one it addresses in the store and unchanged
C28_OtherRecordsUntouched ==
    [][/\ \A id \in KeysOf(sessions) \cap KeysOf(sessions') :
            /\ ObjOf(sessions', id) = ObjOf(sessions, id)
            /\ RecOf(id)'.created_at = RecOf(id).created_at
       /\ \A t \in Threads :
            (Steps(t) /\ ~InCreate(t)) =>
                \A id \in KeysOf(sessions) \ Addressed(t) :
                    /\ id \in KeysOf(sessions')
                    /\ RecOf(id)' = RecOf(id)]_vars

\* a generation request has written its paths back to one session an hour
\* or more after another session was created, which nobody has touched since
C28_Witness ==
    /\ thr[1].op = "generate"
    /\ thr[1].pc = "done"
    /\ thr[1].calls = 1
    /\ Has(sessions, thr[1].gsid)
    /\ RecOf(thr[1].gsid).user_data = PathsPatchOf(<<"p1">>)
    /\ RecOf(thr[1].gsid).last_activity = clock
    /\ \E other \in KeysOf(sessions) \ {thr[1].gsid} :
        /\ RecOf(other).created_at < clock
        /\ RecOf(other).last_activity = RecOf(other).created_at
        /\ RecOf(other).user_data = EmptyDict

\* C29 as stated: when reset_session has returned normally, the session it
\* was to reset (the body's session_id, or else the session of the request's
\* cookie) is not in the store, and no statement of the call has created a
\* session
C29_ResetEndsNamedSession ==
    /\ [](\A t \in Threads :
            (thr[t].op = "reset" /\ thr[t].pc = "done" /\ thr[t].exc = "none") =>
                ~Has(sessions, thr[t].rsid))
    /\ [][\A t \in Threads :
            (thr[t].op = "reset" /\ Steps(t)) =>
                /\ issued' = issued
                /\ KeysOf(sessions') \subseteq KeysOf(sessions)]_vars

\* the protocol call of t was given the id of a stored session and has not
\* called the Generator
OnStored(t) ==
    /\ thr[t].op = "generate"
    /\ thr[t].calls = 0
    /\ thr[t].arg_sid # NoId
    /\ Has(sessions, thr[t].arg_sid)

\* C30: a protocol call on a stored session that holds a non-empty
\* ikiguide_paths returns that sequence without a Generator call, creates
\* and removes no record, and changes no field of any record but the
\* last_activity of its session, which its get_session sets to the current
\* time; a session that holds an empty ikiguide_paths is no hit: the call
\* goes on to the Generator
C30_HitOnlyTouchesActivity ==
    [][\A t \in Threads :
        (OnStored(t) /\ Steps(t)) =>
            LET ud == RecOf(thr[t].arg_sid).user_data IN
            /\ ("ikiguide_paths" \in DOMAIN ud /\ ud["ikiguide_paths"] # <<>>) =>
                /\ sessions' = sessions
                /\ thr'[t].calls = 0
                /\ thr'[t].pc # "gen_wait"
                /\ \A id \in KeysOf(sessions) :
                    RecOf(id)' = IF id = thr[t].arg_sid /\ thr[t].pc = "g_touch"
                                 THEN [RecOf(id) EXCEPT !.last_activity = clock]
                                 ELSE RecOf(id)
                /\ thr'[t].pc = "done" =>
                    /\ thr'[t].hit
                    /\ thr'[t].exc = "none"
                    /\ thr'[t].paths = ud["ikiguide_paths"]
            /\ (/\ "ikiguide_paths" \in DOMAIN ud
                /\ ud["ikiguide_paths"] = <<>>
                /\ thr[t].pc = "gen_memo") =>
                /\ thr'[t].pc = "gen_wait"
                /\ thr'[t].calls = 1]_vars

\* a call has returned the stored paths of a session without a Generator
\* call, an hour or more after the paths were written; the session's
\* last_activity is the current time
C30_Witness ==
    /\ OnStored(1)
    /\ thr[1].pc = "done"
    /\ thr[1].hit
    /\ thr[1].calls = 0
    /\ thr[1].paths = <<"p2">>
    /\ RecOf(thr[1].arg_sid).user_data = PathsPatchOf(<<"p2">>)
    /\ RecOf(thr[1].arg_sid).last_activity = clock
    /\ RecOf(thr[1].arg_sid).created_at = 0
    /\ clock = MaxClock

\* C30 as stated: a protocol call on a stored session that holds an
\* ikiguide_paths value, an empty sequence included, makes no Generator call
\* and leaves the mapping and every field of every record as they are
C30_HitReadOnly ==
    [][\A t \in Threads :
        (/\ OnStored(t)
         /\ Steps(t)
         /\ "ikiguide_paths" \in DOMAIN RecOf(thr[t].arg_sid).user_data)
        => /\ sessions' = sessions
           /\ thr'[t].calls = 0
           /\ \A id \in KeysOf(sessions) : RecOf(id)' = RecOf(id)]_vars

\* thread t resolves a session for a request: get_session_id or start_session
Resolving(t) == thr[t].op \in {"resolve", "start"}

C32_CreateReleasesLock ==
    /\ [](\A t \in Threads :
            /\ lock = t => InCritical(t)
            /\ thr[t].pc = "done" => lock # t)
    /\ [][lock' # lock => (lock = 0 \/ lock' = 0)]_vars
    /\ \A t \in Threads : (thr[t].pc = "c_lock") ~> (thr[t].pc = "c_sweep")
    /\ \A t \in Threads : InCritical(t) ~> (thr[t].pc = "done" /\ lock # t)

\* a thread waits for the lock while the thread that holds it is about to
\* leave create_session with SessionError
C32_Witness ==
    /\ thr[1].pc = "c_lock"
    /\ thr[2].pc = "c_except"
    /\ lock = 2
    /\ max_sessions >= 1

\* C33 as stated: the record an update_session call has merged its patch
\* into, and is about to report True for, is a record of the store
C33_UpdateTrueOnStoredRecord ==
    \A t \in Threads :
        (thr[t].op = "update" /\ thr[t].pc = "u_touch") =>
            thr[t].sess \in Stored(sessions)

\* how far into create_session a statement is
Rank(pc) ==
    CASE pc = "c_lock" -> 1
      [] pc = "c_sweep" -> 2
      [] pc = "c_expdel" -> 3
      [] pc = "c_over" -> 4
      [] pc = "c_overloop" -> 5
      [] pc = "c_check" -> 6
      [] pc = "c_evict" -> 7
      [] pc = "c_build" -> 8
      [] pc = "c_insert" -> 9
      [] pc = "c_return" -> 10
      [] pc = "c_except" -> 10
      [] OTHER -> 11

\* C34: a create_session call removes records in its expiry sweep, each
\* older than the timeout, and in one eviction at most: the call never goes
\* back to an earlier statement, the eviction removes one record, and it
\* takes place only when the store, after the sweep, holds max_sessions
\* records or more; when it holds fewer, the call goes on to build its record
\* and removes nothing more
C34_AtMostOneEviction ==
    [][\A t \in Threads :
        (InCreate(t) /\ Steps(t)) =>
            /\ Rank(thr'[t].pc) >= Rank(thr[t].pc)
            /\ thr[t].pc = "c_evict" => Rank(thr'[t].pc) > Rank(thr[t].pc)
            /\ \A id \in KeysOf(sessions) \ KeysOf(sessions') :
                \/ /\ thr[t].pc = "c_expdel"
                   /\ thr[t].now - RecOf(id).created_at > session_timeout
                \/ /\ thr[t].pc = "c_evict"
                   /\ Len(sessions) >= max_sessions
                   /\ KeysOf(sessions') = KeysOf(sessions) \ {id}
            /\ (thr[t].pc = "c_check" /\ Len(sessions) < max_sessions) =>
                thr'[t].pc = "c_build"
            /\ thr[t].pc \in {"c_check", "c_build", "c_insert", "c_return"} =>
                KeysOf(sessions) \subseteq KeysOf(sessions')]_vars

\* a create_session call whose sweep found nothing expired has evicted one
\* record of a full store of two, and the other record is still there
C34_Witness ==
    \E t \in Threads :
        /\ thr[t].pc = "c_build"
        /\ thr[t].nexp = 0
        /\ thr[t].oldest # NoId
        /\ ~Has(sessions, thr[t].oldest)
        /\ max_sessions = 2
        /\ Len(sessions) = 1
        /\ clock - RecOf(sessions[1].id).created_at <= session_timeout

\* C35: the store never holds more than max_sessions records, so the test
\* `len(self._sessions) > self._max_sessions` of the sweep is false whenever
\* it is evaluated and the loop removing the oldest records is never entered
C35_OvershootNeverEntered ==
    /\ Len(sessions) <= max_sessions
    /\ \A t \in Threads : thr[t].pc # "c_overloop"

\* the sweep of a create_session call evaluates the overshoot test on a full
\* store of the largest capacity, none of whose records has expired
C35_Witness ==
    \E t \in Threads :
        /\ thr[t].pc = "c_over"
        /\ thr[t].nexp = 0
        /\ max_sessions = MaxCap
        /\ Len(sessions) = max_sessions

\* C36 as stated: a generation request whose responses lack a required key
\* runs the validation once: it is never sent to wait for a further attempt,
\* and it creates no session
C36_ValidationFailsOnFirstAttempt ==
    \A t \in Threads :
        (thr[t].op = "generate" /\ ~HasRequired(Transform(thr[t].resp))) =>
            /\ thr[t].pc # "gen_backoff"
            /\ thr[t].attempt <= 1
            /\ thr[t].gsid = NoId

\* C37 as stated: the only record a step of an end_session request takes out
\* of the store is the one delete_session removes under the id resolved for
\* the caller; every other stored session stays
C37_EndRemovesOnlyResolved ==
    [][\A t \in Threads :
        (thr[t].op = "end" /\ Steps(t)) =>
            KeysOf(sessions) \ KeysOf(sessions') \subseteq
                (IF thr[t].pc = "d_del" THEN {thr[t].sid} ELSE {})]_vars

\* --------------------------------------------------- POST /responses
\* the request body, flattened: {'question_id': q, 'response': v}, or
\* {'responses': {...}} with the entries of the inner dict after it
SingleBody(q, v) == <<Entry("question_id", FALSE, q), Entry("response", FALSE, v)>>
MultiBody(b) == <<Entry("responses", FALSE, "")>> \o b
OtherBody == <<Entry("note", FALSE, "n")>>

\* responses[question_id] = response: a key already there keeps its place
BundleSet(b, e) ==
    IF HasKey(b, e.k, e.int)
    THEN [i \in 1..Len(b) |-> IF b[i].k = e.k /\ b[i].int = e.int THEN e ELSE b[i]]
    ELSE Append(b, e)

\* responses.update(other), in the order of other
RECURSIVE BundleUpdate(_, _)
BundleUpdate(b, other) ==
    IF other = <<>> THEN b
    ELSE BundleUpdate(BundleSet(b, Head(other)), Tail(other))

\* user_data['responses'] once the body has been applied to it, or the
\* sentinel when neither format is recognized
Saved(b, body) ==
    IF HasKey(body, "question_id", FALSE) /\ HasKey(body, "response", FALSE)
    THEN BundleSet(b, Entry(GetVal(body, "question_id", FALSE, ""), TRUE,
                            GetVal(body, "response", FALSE, "")))
    ELSE IF HasKey(body, "responses", FALSE)
    THEN BundleUpdate(b, Tail(body))
    ELSE Incomplete

\* session_id = response_data.get('session_id') or get_session_id(request);
\* session = get_session(session_id); if not session: create_session() and
\* get_session again
save_resolve(t) ==
    /\ thr[t].pc \in {"sv_start", "sv_resolved", "sv_created"}
    /\ LET loc == thr[t] IN
       CASE loc.pc = "sv_start" ->
              IF loc.rsid = NoId
              THEN thr' = [thr EXCEPT ![t] = Call(loc, "gsi_start", "sv_resolved")]
              ELSE thr' = [thr EXCEPT ![t] = Call([loc EXCEPT !.sid = loc.rsid],
                                                  "g_lookup", "sv_got")]
         [] loc.pc = "sv_resolved" ->
              IF loc.exc = "APIError500"
              THEN thr' = [thr EXCEPT ![t] = Ret([loc EXCEPT !.resp = <<>>])]
              ELSE thr' = [thr EXCEPT ![t] = Call([loc EXCEPT !.rsid = loc.res,
                                                             !.sid = loc.res,
                                                             !.res = 0],
                                                  "g_lookup", "sv_got")]
         [] loc.pc = "sv_created" ->
              IF loc.exc = "SessionError"
              THEN thr' = [thr EXCEPT ![t] = Ret([loc EXCEPT !.exc = "APIError500",
                                                            !.resp = <<>>])]
              ELSE thr' = [thr EXCEPT ![t] = Call([loc EXCEPT !.rsid = loc.res,
                                                             !.sid = loc.res,
                                                             !.res = 0],
                                                  "g_lookup", "sv_fetched")]
    /\ UNCHANGED <<clock, max_sessions, session_timeout, sessions, heap, lock, issued, prev>>

\* if 'responses' not in user_data: user_data['responses'] = {}; apply the
\* body; update_session(session_id, {'responses': user_data['responses']})
save_apply(t) ==
    /\ thr[t].pc \in {"sv_got", "sv_fetched"}
    /\ LET loc == thr[t]
           ud == heap[loc.sess].user_data
           b == IF "responses" \in DOMAIN ud THEN ud["responses"] ELSE <<>>
           nb == Saved(b, loc.resp)
       IN
       IF loc.sess = 0
       THEN /\ IF loc.pc = "sv_got"
               THEN /\ CanCreate
                    /\ thr' = [thr EXCEPT ![t] = Call(loc, "c_lock", "sv_created")]
               ELSE \* 'NoneType' object has no attribute '_session_data'
                    thr' = [thr EXCEPT ![t] = Ret([loc EXCEPT !.exc = "APIError500",
                                                             !.resp = <<>>])]
            /\ heap' = heap
       ELSE IF nb = Incomplete
       THEN \* APIError("Invalid response format", 400), raised again as 500
            /\ thr' = [thr EXCEPT ![t] = Ret([loc EXCEPT !.exc = "APIError500",
                                                        !.resp = <<>>, !.sess = 0])]
            /\ heap' = Collect([heap EXCEPT ![loc.sess].user_data =
                                    DictUpdate(ud, ResponsesPatchOf(b))],
                               sessions, thr')
       ELSE /\ thr' = [thr EXCEPT ![t] =
                    Call(Call([loc EXCEPT !.sid = loc.rsid, !.resp = <<>>,
                                          !.data = ResponsesPatchOf(nb), !.sess = 0],
                              "u_merge", "sv_updated"),
                         "g_lookup", "u_merge")]
            /\ heap' = Collect([heap EXCEPT ![loc.sess].user_data =
                                    DictUpdate(ud, ResponsesPatchOf(nb))],
                               sessions, thr')
    /\ UNCHANGED <<clock, max_sessions, session_timeout, sessions, lock, issued, prev>>

\* if not updated: APIError("Failed to save responses", 400), raised again
\* as 500; else the confirmation
save_done(t) ==
    /\ thr[t].pc = "sv_updated"
    /\ thr' = [thr EXCEPT ![t] = Ret([thr[t] EXCEPT
                    !.exc = IF thr[t].res = 1 THEN "none" ELSE "APIError500",
                    !.res = 0])]
    /\ UNCHANGED <<clock, max_sessions, session_timeout, sessions, heap, lock, issued, prev>>

save_response(t) == save_resolve(t) \/ save_apply(t) \/ save_done(t)

\* POST /responses with the request's cookie, the body's session_id and
\* the body
StartSave(t, cookie, id, body) ==
    /\ thr[t].pc = "idle"
    /\ thr' = [thr EXCEPT ![t] = [Idle EXCEPT !.pc = "sv_start", !.op = "save",
                                               !.cookie = cookie, !.rsid = id,
                                               !.resp = body]]
    /\ prev' = NoPrev
    /\ UNCHANGED <<clock, max_sessions, session_timeout, sessions, heap, lock, issued>>

\* the answer given to each question
Answers == <<"a1", "a2", "a3", "a4">>
SaveBodies ==
    {SingleBody(NumericKeys[q], Answers[q]) : q \in 1..4}
        \cup {MultiBody(RFull), OtherBody}

OrderCall(t) ==
    \/ \E c \in CallerIds \cup {NoId}, id \in CallerIds \cup {NoId}, body \in SaveBodies :
            StartSave(t, c, id, body)
    \/ \E b \in {RPartial, RNumFull}, id \in CallerIds \cup {NoId} : StartGenerate(t, b, id)
    \/ \E c \in CallerIds \cup {NoId}, id \in CallerIds \cup {NoId} :
            StartResults(t, c, id)

OrderStep(t) ==
    \/ create_session(t)
    \/ get_session(t)
    \/ update_session(t)
    \/ Finish(t)
    \/ generate_ikiguide_with_retry(t, {<<"p1">>})
    \/ get_session_id(t)
    \/ save_response(t)
    \/ get_results(t)

\* answers saved one request at a time, in any order, then GET /results
NextOrder ==
    \/ OrderCall(1)
    \/ OrderStep(1)

SpecOrder == InitGen /\ [][NextOrder]_vars

\* C38 as stated: when GET /results hands the Generator the bundle made of a
\* session's answers saved under numeric question ids, answer 1 is under
\* good_at, 2 under love, 3 under world_needs and 4 under paid_for, the
\* bundle generate_ikiguide_with_retry makes of the same answers
C38_NumericIdsMappedAlike ==
    \A t \in Threads :
        (thr[t].op = "results" /\ thr[t].pc = "gen_wait" /\ thr[t].sess # 0) =>
            LET ud == heap[thr[t].sess].user_data
                b == IF "responses" \in DOMAIN ud THEN ud["responses"] ELSE <<>>
            IN  AllInt(b) =>
                    /\ \A i \in 1..4 :
                        GetVal(Transform(thr[t].resp), RequiredKeys[i], FALSE, "")
                            = GetVal(b, NumericKeys[i], TRUE, "")
                    /\ Transform(thr[t].resp) = Transform(b)
====
